---- MODULE Spec2Model ----
(***************************************************************************)
(* A model of gden173/geotiff: the constructors New and Read of a GeoTIFF  *)
(* image, the pixel lookup loc, and the georeferencing queries Bounds,     *)
(* AtCoord, interp and AtPoints.                                           *)
(*                                                                         *)
(* Go values are modelled as follows.                                      *)
(*   uint16      a number in 0..65535, arithmetic reduced modulo 2^16      *)
(*   int         a 64-bit integer; the model only ever compares it with    *)
(*               buffer lengths, so a product is saturated at IntCap       *)
(*   uint32      its two 16-bit halves <<high, low>>, arithmetic reduced   *)
(*               modulo 2^32                                               *)
(*   float32,    an integer (the model draws integer-valued floats, on     *)
(*   float64     which +, - and * are exact, and decodes their IEEE 754    *)
(*               encodings); a division is kept as the pair it is          *)
(*               truncated from                                            *)
(*   []T         a sequence, index i of Go being index i+1 here            *)
(*   (v, error)  a record with kind "ok", "err", or "panic" for a run-time *)
(*               panic (index out of range, integer divide by zero)        *)
(***************************************************************************)
EXTENDS Integers, Sequences, FiniteSets, TLC

VARIABLES
    g,      \* the *GeoTIFF under construction or query (NilImage before)
    made,   \* history: the constructor call that produced g
    call,   \* the last operation called, with its arguments
    ret,    \* what that operation returned
    nq      \* the number of queries made on g so far

vars == <<g, made, call, ret, nq>>

----------------------------------------------------------------------------
(* Bounds of the model *)

\* largest "ordinary" image or tile dimension drawn for New
MaxDim == 3
\* most tile arrays handed to New
MaxTiles == 4
\* most samples in one tile array handed to New
MaxTileLen == 4
\* pixel coordinates queried through loc range over -1..MaxCoord (and the
\* top of the uint16 range)
MaxCoord == 4
\* queries made on one image in one run (a query leaves the image as it
\* is, so each query of a longer run is the first query of a shorter one)
MaxQueries == 1
\* longitudes queried range over -1..MaxLon
MaxLon == 7
\* latitudes queried range over -1..MaxLat
MaxLat == 5
\* most elements of a value that a file of the directory walk holds
MaxCount == 5
\* most entries of a directory in the files of chained directories
MaxEntries == 2
\* callers that query one image at the same time
MaxCallers == 2
\* most directories of a chain that is followed from offset to offset
MaxChain == 3
\* most elements of a field that is handed to readData changed
MaxStored == 2

----------------------------------------------------------------------------
(* Machine arithmetic *)

\* uint16 has 2^16 values
W16 == 2^16

\* stands for every int too large to index a buffer of the model
IntCap == 2^30

Add16(a, b) == (a + b) % W16

Sub16(a, b) == (a - b + W16) % W16

\* a * b modulo 2^16, computed in halves so no intermediate leaves 32 bits
Mul16(a, b) ==
    LET aHi == a \div 256
        aLo == a % 256
    IN  ((((aHi * b) % 256) * 256) + aLo * b) % W16

\* a * b on Go ints (never wraps for operands below 2^16; saturated at IntCap)
IntMul(a, b) ==
    IF a = 0 \/ b = 0 THEN 0
    ELSE IF a >= IntCap \/ b >= IntCap \/ a > IntCap \div b THEN IntCap
    ELSE a * b

IntAdd(a, b) == IF a + b >= IntCap THEN IntCap ELSE a + b

\* the uint32 of a number below 2^31
u32(n) == <<n \div W16, n % W16>>

\* int(u) of a uint32 (saturated at IntCap)
ToInt(u) == IF u[1] >= IntCap \div W16 THEN IntCap ELSE u[1] * W16 + u[2]

\* u * k modulo 2^32, for k below 2^15
Mul32(u, k) ==
    LET lo == u[2] * k
    IN  <<(u[1] * k + lo \div W16) % W16, lo % W16>>

\* u / 4 on uint32, whatever k is
Div32ByFour(u, k) == <<u[1] \div 4, ((u[1] % 4) * W16 + u[2]) \div 4>>

\* u / k on uint32, for 0 < k below 2^15
Div32(u, k) == <<u[1] \div k, ((u[1] % k) * W16 + u[2]) \div k>>

\* the mathematical ceil(a / b), b > 0
CeilDiv(a, b) == (a + b - 1) \div b

----------------------------------------------------------------------------
(* Results *)

\* a sample value returned
Ok(v) == [kind |-> "ok", val |-> v]

\* a *GeoTIFF returned
OkImage(im) == [kind |-> "ok", image |-> im]

\* a *CornerCoordinates returned
OkCorners(cc) == [kind |-> "ok", corners |-> cc]

\* a []float32 returned
OkValues(d) == [kind |-> "ok", vals |-> d]

Err(m) == [kind |-> "err", msg |-> m]

Panic(m) == [kind |-> "panic", msg |-> m]

\* the result of a pixel lookup also records which samples it read
LocOk(v, tileNum, idx) ==
    [kind |-> "ok", val |-> v, reads |-> {<<tileNum, idx>>}]

LocErr(m) == [kind |-> "err", msg |-> m, reads |-> {}]

LocPanic(m) == [kind |-> "panic", msg |-> m, reads |-> {}]

NilImage == [nil |-> TRUE]

NilTags == << >>

----------------------------------------------------------------------------
(* New *)

\* tilesAcross / tilesDown as New, readData and loc compute them: the sum
\* and the difference are uint16 operations
tilesAlong16(iDim, tDim) == Sub16(Add16(iDim, tDim), 1) \div tDim

\* every tile array of data has n samples
allTilesLen(data, n) == \A t \in 1..Len(data) : Len(data[t]) = n

New(data, iWidth, iLength, tWidth, tLength, pX, pY, tags) ==
    IF pX < 0 \/ pY < 0 THEN Err("pixel scale tags should be > 0")
    ELSE IF tWidth = 0 \/ tLength = 0 THEN Panic("integer divide by zero")
    ELSE
      LET tilesAcross   == tilesAlong16(iWidth, tWidth)
          tilesDown     == tilesAlong16(iLength, tLength)
          tilesPerImage == Mul16(tilesAcross, tilesDown)
      IN  IF tilesPerImage # Len(data)
            THEN Err("invalid number of tiles for data")
          ELSE IF ~allTilesLen(data, Mul16(tWidth, tLength))
            THEN Err("invalid amount of tile data passed")
          ELSE OkImage([nil |-> FALSE,
                        data |-> data,
                        imageWidth |-> iWidth,
                        imageLength |-> iLength,
                        tileWidth |-> tWidth,
                        tileLength |-> tLength,
                        PixelScaleX |-> pX,
                        PixelScaleY |-> pY,
                        tags |-> tags])

----------------------------------------------------------------------------
(* loc *)

\* g.data[tileNum][idx]: a Go slice index, which panics out of range
tileAt(data, tileNum, idx) ==
    IF tileNum >= Len(data) THEN LocPanic("index out of range")
    ELSE IF idx >= Len(data[tileNum + 1]) THEN LocPanic("index out of range")
    ELSE LocOk(data[tileNum + 1][idx + 1], tileNum, idx)

\* loc with the upper bounds test off by one
locInclusive(im, x, y) ==
    IF x < 0 \/ x > im.imageWidth \/ y < 0 \/ y > im.imageLength
      THEN LocErr("point lies outside image")
    ELSE IF im.tileWidth = 0 \/ im.tileLength = 0
      THEN LocPanic("integer divide by zero")
    ELSE
      LET tilesAcross == tilesAlong16(im.imageWidth, im.tileWidth)
          idAcross    == x \div im.tileWidth
          idDown      == y \div im.tileLength
          tileNum     == IntAdd(IntMul(tilesAcross, idDown), idAcross)
          idI         == x % im.tileWidth
          idJ         == IntMul(y % im.tileLength, im.tileWidth)
      IN  tileAt(im.data, tileNum, IntAdd(idJ, idI))

loc(im, x, y) ==
    IF x < 0 \/ x >= im.imageWidth \/ y < 0 \/ y >= im.imageLength
      THEN LocErr("point lies outside image")
    ELSE IF im.tileWidth = 0 \/ im.tileLength = 0
      THEN LocPanic("integer divide by zero")
    ELSE
      LET tilesAcross == tilesAlong16(im.imageWidth, im.tileWidth)
          idAcross    == x \div im.tileWidth
          idDown      == y \div im.tileLength
          tileNum     == IntAdd(IntMul(tilesAcross, idDown), idAcross)
          idI         == x % im.tileWidth
          idJ         == IntMul(y % im.tileLength, im.tileWidth)
      IN  tileAt(im.data, tileNum, IntAdd(idJ, idI))

----------------------------------------------------------------------------
(* Tags *)

NONE == 0
BYTE == 1
ASCII == 2
SHORT == 3
LONG == 4
FLOAT == 11
DOUBLE == 12

ModelPixelScale == 33550
ModelTiepoint == 33922

\* a tagData holding `values` in the field that fType selects on decoding
tagData(fType, length, values) ==
    [fType |-> fType, length |-> length,
     byteData   |-> IF fType = BYTE THEN values ELSE << >>,
     asciiData  |-> IF fType = ASCII THEN values ELSE << >>,
     shortData  |-> IF fType = SHORT THEN values ELSE << >>,
     longData   |-> IF fType = LONG THEN values ELSE << >>,
     floatData  |-> IF fType = FLOAT THEN values ELSE << >>,
     doubleData |-> IF fType = DOUBLE THEN values ELSE << >>]

\* the zero tagData a Go map yields for an absent key
zeroTagData == tagData(NONE, u32(0), << >>)

\* tags[t] on a Go map (a nil map reads as empty)
tagLookup(tags, t) == IF t \in DOMAIN tags THEN tags[t] ELSE zeroTagData

\* tagData.value(): the variant fType names, NONE for every other type
tagValue(t) ==
    CASE t.fType = SHORT  -> [ftype |-> SHORT,  elem |-> t.shortData]
      [] t.fType = LONG   -> [ftype |-> LONG,   elem |-> t.longData]
      [] t.fType = FLOAT  -> [ftype |-> FLOAT,  elem |-> t.floatData]
      [] t.fType = DOUBLE -> [ftype |-> DOUBLE, elem |-> t.doubleData]
      [] t.fType = BYTE   -> [ftype |-> BYTE,   elem |-> t.byteData]
      [] t.fType = ASCII  -> [ftype |-> ASCII,  elem |-> t.asciiData]
      [] OTHER            -> [ftype |-> NONE,   elem |-> << >>]

----------------------------------------------------------------------------
(* Bounds *)

Point(lon, lat) == [Lon |-> lon, Lat |-> lat]

\* the zero value of Point, which CornerCoordinates{} starts from
zeroPoint == Point(0, 0)

\* BoundsOf with the image's width and length exchanged at the origin
BoundsOfSwapped(im, tp) ==
    IF tp[1] = 0 /\ tp[2] = 0
    THEN LET UpperLeft  == Point(tp[4], tp[5])
             LowerLeft  == Point(UpperLeft.Lon,
                                 UpperLeft.Lat - im.imageWidth * im.PixelScaleY)
             LowerRight == Point(UpperLeft.Lon + im.imageLength * im.PixelScaleX,
                                 LowerLeft.Lat)
             UpperRight == Point(LowerRight.Lon, UpperLeft.Lat)
         IN  [UpperLeft |-> UpperLeft, LowerLeft |-> LowerLeft,
              UpperRight |-> UpperRight, LowerRight |-> LowerRight]
    ELSE LET UpperLeft  == Point(tp[4] - tp[1] * im.PixelScaleX,
                                 tp[5] + tp[2] * im.PixelScaleY)
             LowerRight == Point(tp[4] + tp[1] * im.PixelScaleX,
                                 tp[5] - tp[2] * im.PixelScaleY)
             LowerLeft  == Point(zeroPoint.Lon, LowerRight.Lat)
             UpperRight == Point(LowerRight.Lon, UpperLeft.Lat)
         IN  [UpperLeft |-> UpperLeft, LowerLeft |-> LowerLeft,
              UpperRight |-> UpperRight, LowerRight |-> LowerRight]

BoundsOf(im, tp) ==
    IF tp[1] = 0 /\ tp[2] = 0
    THEN LET UpperLeft  == Point(tp[4], tp[5])
             LowerLeft  == Point(UpperLeft.Lon,
                                 UpperLeft.Lat - im.imageLength * im.PixelScaleY)
             LowerRight == Point(UpperLeft.Lon + im.imageWidth * im.PixelScaleX,
                                 LowerLeft.Lat)
             UpperRight == Point(LowerRight.Lon, UpperLeft.Lat)
         IN  [UpperLeft |-> UpperLeft, LowerLeft |-> LowerLeft,
              UpperRight |-> UpperRight, LowerRight |-> LowerRight]
    ELSE LET UpperLeft  == Point(tp[4] - tp[1] * im.PixelScaleX,
                                 tp[5] + tp[2] * im.PixelScaleY)
             LowerRight == Point(tp[4] + tp[1] * im.PixelScaleX,
                                 tp[5] - tp[2] * im.PixelScaleY)
             \* cc.LowerLeft.Lon is read before cc.LowerLeft is assigned
             LowerLeft  == Point(zeroPoint.Lon, LowerRight.Lat)
             UpperRight == Point(LowerRight.Lon, UpperLeft.Lat)
         IN  [UpperLeft |-> UpperLeft, LowerLeft |-> LowerLeft,
              UpperRight |-> UpperRight, LowerRight |-> LowerRight]

\* Bounds without the test of the tiepoint's length
BoundsAnyLength(im) ==
    IF ModelTiepoint \notin DOMAIN im.tags
      THEN Err("unable to retrieve model tiepoint")
    ELSE LET tiePoint == im.tags[ModelTiepoint]
             v        == tagValue(tiePoint)
         IN  IF v.ftype # DOUBLE THEN Err("unrecognized value for tiepoint")
             ELSE IF Len(v.elem) < 5 THEN Panic("index out of range")
             ELSE OkCorners(BoundsOf(im, v.elem))

Bounds(im) ==
    IF ModelTiepoint \notin DOMAIN im.tags
      THEN Err("unable to retrieve model tiepoint")
    ELSE LET tiePoint == im.tags[ModelTiepoint]
             v        == tagValue(tiePoint)
         IN  IF ToInt(tiePoint.length) # 6 THEN Err("invalid length")
             ELSE IF v.ftype # DOUBLE THEN Err("unrecognized value for tiepoint")
             ELSE IF Len(v.elem) < 5 THEN Panic("index out of range")
             ELSE OkCorners(BoundsOf(im, v.elem))

Contains(cc, p) ==
    /\ cc.UpperLeft.Lon <= p.Lon
    /\ p.Lon <= cc.UpperRight.Lon
    /\ cc.LowerLeft.Lat <= p.Lat
    /\ p.Lat <= cc.UpperLeft.Lat

----------------------------------------------------------------------------
(* AtCoord, interp, AtPoints *)

Abs(a) == IF a < 0 THEN -a ELSE a

\* int(num / den) on float64 operands. A quotient that is NaN (0/0) or
\* infinite (x/0) has no int value: Go leaves the result to the
\* implementation, here the build's target arch. amd64 yields the smallest
\* int for both; arm64 yields 0 for NaN and saturates an infinity.
FloatToInt(num, den, arch) ==
    IF den = 0
    THEN IF arch = "amd64" THEN -IntCap
         ELSE IF num = 0 THEN 0
         ELSE IF num > 0 THEN IntCap ELSE -IntCap
    ELSE LET q == Abs(num) \div Abs(den)
         IN  IF (num < 0) = (den < 0) THEN q ELSE -q

RECURSIVE AtCoord(_, _, _, _, _)
RECURSIVE AtPointsFrom(_, _, _, _, _, _)
RECURSIVE AtPoints(_, _, _, _)
RECURSIVE interp(_, _, _)

\* the loop of AtPoints from index i on, data being the slice so far
AtPointsFrom(im, points, interpolate, i, data, arch) ==
    IF i >= Len(points) THEN OkValues(data)
    ELSE LET r == AtCoord(im, points[i + 1].Lon, points[i + 1].Lat,
                          interpolate, arch)
         IN  IF r.kind # "ok" THEN r
             \* data[i] = v on a slice of length Len(data)
             ELSE IF i >= Len(data) THEN Panic("index out of range")
             ELSE AtPointsFrom(im, points, interpolate, i + 1,
                               [data EXCEPT ![i + 1] = r.val], arch)

\* make([]float32, 0, len(points)) is a slice of length 0
AtPoints(im, points, interpolate, arch) ==
    AtPointsFrom(im, points, interpolate, 0, << >>, arch)

\* the sum of a slice of values, as the range loop of interp adds them
RECURSIVE sumValues(_)
sumValues(s) == IF s = << >> THEN 0 ELSE Head(s) + sumValues(Tail(s))

\* pv / 4.0, kept as the fraction it is
meanOf(pv) == [num |-> pv, den |-> 4]

interp(im, p, arch) ==
    LET points == << Point(p.Lon - im.PixelScaleX, p.Lat),
                     Point(p.Lon + im.PixelScaleX, p.Lat),
                     Point(p.Lon, p.Lat - im.PixelScaleY),
                     Point(p.Lon, p.Lat + im.PixelScaleY) >>
        pointValues == AtPoints(im, points, FALSE, arch)
    IN  IF pointValues.kind # "ok" THEN pointValues
        ELSE Ok(meanOf(sumValues(pointValues.vals)))

AtCoord(im, x, y, interpolate, arch) ==
    LET rect == Bounds(im)
        p    == Point(x, y)
    IN  IF rect.kind # "ok" THEN rect
        ELSE IF ~Contains(rect.corners, p)
          THEN Err("requested point does not fall inside the image bounds")
        ELSE IF interpolate THEN interp(im, p, arch)
        ELSE LET xIDx == FloatToInt(Abs(rect.corners.UpperLeft.Lon - p.Lon),
                                    im.PixelScaleX, arch)
                 yIDx == FloatToInt(Abs(p.Lat - rect.corners.UpperLeft.Lat),
                                    im.PixelScaleY, arch)
                 r    == loc(im, xIDx, yIDx)
             IN  IF r.kind = "ok" THEN Ok(r.val)
                 ELSE IF r.kind = "err" THEN Err(r.msg) ELSE Panic(r.msg)

----------------------------------------------------------------------------
(* Reading a stream: r is the sequence of the file's bytes, read at a      *)
(* position that the operators pass along                                  *)

littleEndian == 18761
bigEndian == 19789
tiffIdentifier == 42

RATIONAL == 5
SBYTE == 6
UNDEFINED == 7
SSHORT == 8
SLONG == 9
SRATIONAL == 10

ImageWidth == 256
ImageLength == 257
BitsPerSample == 258
TileWidth == 322
TileLength == 323
TileOffsets == 324
TileByteCounts == 325

fourByte == 4
eightByte == 8

\* io.ReadFull of n bytes at pos succeeds (no byte is wanted, or all are there)
avail(r, pos, n) == n = 0 \/ IntAdd(pos, n) <= Len(r)

\* the n bytes at pos
bytesAt(r, pos, n) == [i \in 1..n |-> r[pos + i]]

\* bytes as byteOrder lays them out, turned most significant first
msbFirst(b, byteOrder) ==
    IF byteOrder = "BigEndian" THEN b
    ELSE [i \in 1..Len(b) |-> b[Len(b) + 1 - i]]

uint16Of(b) == b[1] * 256 + b[2]

uint32Of(b) == <<b[1] * 256 + b[2], b[3] * 256 + b[4]>>

\* math.Float32frombits on the patterns of integer values (sign, 8 bits of
\* exponent biased by 127, 23 bits of fraction)
float32Of(b) ==
    LET sign == b[1] \div 128
        e    == (b[1] % 128) * 2 + b[2] \div 128
        frac == (b[2] % 128) * 65536 + b[3] * 256 + b[4]
        mag  == (2^23 + frac) \div 2^(150 - e)
    IN  CASE e = 0 /\ frac = 0 -> 0
          [] e >= 127 /\ e <= 150 /\ (2^23 + frac) % 2^(150 - e) = 0 ->
               IF sign = 1 THEN 0 - mag ELSE mag
          \* any other float is kept as the bits it has
          [] OTHER -> [bits |-> b]

\* math.Float64frombits on the patterns of integer values (sign, 11 bits of
\* exponent biased by 1023, 52 bits of fraction of which the low 32 are 0)
float64Of(b) ==
    LET sign == b[1] \div 128
        e    == (b[1] % 128) * 16 + b[2] \div 16
        frac == (b[2] % 16) * 65536 + b[3] * 256 + b[4]
        low  == {b[5], b[6], b[7], b[8]}
        mag  == (2^20 + frac) \div 2^(1043 - e)
    IN  CASE e = 0 /\ frac = 0 /\ low = {0} -> 0
          [] e >= 1023 /\ e <= 1043 /\ low = {0}
               /\ (2^20 + frac) % 2^(1043 - e) = 0 ->
               IF sign = 1 THEN 0 - mag ELSE mag
          \* any other float is kept as the bits it has
          [] OTHER -> [bits |-> b]

readUint16(r, pos, byteOrder) == uint16Of(msbFirst(bytesAt(r, pos, 2), byteOrder))

readUint32(r, pos, byteOrder) == uint32Of(msbFirst(bytesAt(r, pos, 4), byteOrder))

byteOf(b) == b[1]

\* the length of every field type in bytes, for the types NONE..DOUBLE
fieldTypeLen == <<0, 1, 1, 2, fourByte, eightByte, 1, 1, 2, fourByte, eightByte,
                  fourByte, eightByte>>

\* fieldType.bytes() indexes fieldTypeLen out of range
bytesPanics(f) ==
    ~(f = 0 \/ f > Len(fieldTypeLen)) /\ f >= Len(fieldTypeLen)

\* fieldType.bytes() where it returns
bytes(f) ==
    IF f = 0 \/ f > Len(fieldTypeLen) THEN fieldTypeLen[1]
    ELSE fieldTypeLen[f + 1]

totalBytes(ifd) == Mul32(ifd.Count, bytes(ifd.FType))

\* a *tagData returned
OkTag(t) == [kind |-> "ok", tag |-> t]

\* the bytes one element of a decoded field type takes in the stream
elemSize(f) ==
    CASE f \in {BYTE, ASCII} -> 1
      [] f = SHORT -> 2
      [] f \in {LONG, FLOAT} -> 4
      [] f = DOUBLE -> 8

\* one element of field type f from its bytes, most significant first
elemOf(f, b) ==
    CASE f \in {BYTE, ASCII} -> byteOf(b)
      [] f = SHORT  -> uint16Of(b)
      [] f = LONG   -> uint32Of(b)
      [] f = FLOAT  -> float32Of(b)
      [] f = DOUBLE -> float64Of(b)

\* binary.Read into a slice of `count` elements of field type f
readSlice(r, pos, count, f, byteOrder) ==
    [i \in 1..count |->
        elemOf(f, msbFirst(bytesAt(r, pos + (i - 1) * elemSize(f), elemSize(f)),
                           byteOrder))]

\* iFDEntry.value: Count elements at ValueOffset for the six decoded types,
\* nothing for the others (a Count too large for the stream ends in EOF)
value(r, ifd, byteOrder) ==
    LET offset == ToInt(ifd.ValueOffset)
        n      == ToInt(ifd.Count)
        f      == ifd.FType
    IN  IF f \notin {BYTE, ASCII, SHORT, LONG, FLOAT, DOUBLE}
          THEN OkTag(tagData(f, ifd.Count, << >>))
        ELSE IF ~avail(r, offset, IntMul(n, elemSize(f))) THEN Err("EOF")
        ELSE OkTag(tagData(f, ifd.Count, readSlice(r, offset, n, f, byteOrder)))

\* a head returned
OkHead(h) == [kind |-> "ok", head |-> h]

\* readHeader reading the identifier and the offset most significant byte
\* first, whatever the marker
readHeaderFixedOrder(r) ==
    IF ~avail(r, 0, 2) THEN Err("could not parse tiff header byte order")
    ELSE
      LET marker == uint16Of(bytesAt(r, 0, 2))
          byteOrder == IF marker = littleEndian THEN "LittleEndian"
                       ELSE "BigEndian"
      IN  IF marker \notin {littleEndian, bigEndian}
            THEN Err("could not parse tiff header byte order")
          ELSE IF ~avail(r, 2, 2) THEN Err("failed to read tiff header")
          ELSE IF readUint16(r, 2, "BigEndian") # tiffIdentifier
            THEN Err("invalid tiff file identifier")
          ELSE IF ~avail(r, 4, 4) THEN Err("failed to read IFD byte offset")
          ELSE OkHead([byteOrder |-> byteOrder,
                       tIFIdentifier |-> readUint16(r, 2, "BigEndian"),
                       iFDByteOffset |-> readUint32(r, 4, "BigEndian")])

readHeader(r) ==
    IF ~avail(r, 0, 2) THEN Err("could not parse tiff header byte order")
    ELSE
      LET marker == uint16Of(bytesAt(r, 0, 2))
          byteOrder == IF marker = littleEndian THEN "LittleEndian"
                       ELSE "BigEndian"
      IN  IF marker \notin {littleEndian, bigEndian}
            THEN Err("could not parse tiff header byte order")
          ELSE IF ~avail(r, 2, 2) THEN Err("failed to read tiff header")
          ELSE IF readUint16(r, 2, byteOrder) # tiffIdentifier
            THEN Err("invalid tiff file identifier")
          ELSE IF ~avail(r, 4, 4) THEN Err("failed to read IFD byte offset")
          ELSE OkHead([byteOrder |-> byteOrder,
                       tIFIdentifier |-> readUint16(r, 2, byteOrder),
                       iFDByteOffset |-> readUint32(r, 4, byteOrder)])

\* the element of a singleton set: { e(x) : x \in {v} } is e with x bound
\* to the value of v, as an assignment x := v binds it
The(S) == CHOOSE v \in S : TRUE

\* tags[t] = v on a Go map
tagStore(tags, t, v) == (t :> v) @@ tags

\* (Tags, head) returned; pos is where the stream is left
OkTags(tags, h, pos) == [kind |-> "ok", tags |-> tags, head |-> h, pos |-> pos]

\* the entry as readTags hands it to value(): a value of at most four bytes
\* lies in the entry itself, in the four bytes before currentOffset
entryRead(read, currentOffset) ==
    IF ToInt(totalBytes(read)) <= fourByte
      THEN [read EXCEPT !.ValueOffset = u32(currentOffset - fourByte)]
    ELSE read

RECURSIVE readEntries(_, _, _, _, _)
RECURSIVE readEntry(_, _, _, _, _, _)
RECURSIVE readDirectories(_, _, _, _, _)

\* the inner loop of readTags: the `left` entries still to read of a
\* directory, the stream being at pos
readEntries(r, h, pos, left, tags) ==
    IF left = 0 THEN OkTags(tags, h, pos)
    ELSE IF ~avail(r, pos, 12) THEN Err("EOF")
    ELSE The({ readEntry(r, h, pos + 12, left, tags, read) :
                 read \in { [Tag         |-> readUint16(r, pos, h.byteOrder),
                             FType       |-> readUint16(r, pos + 2, h.byteOrder),
                             Count       |-> readUint32(r, pos + 4, h.byteOrder),
                             ValueOffset |-> readUint32(r, pos + 8, h.byteOrder)] } })

\* the body of the inner loop once the entry `read` is read, the stream
\* being at currentOffset
readEntry(r, h, currentOffset, left, tags, read) ==
    IF bytesPanics(read.FType) THEN Panic("index out of range")
    ELSE IF bytes(read.FType) = 0 THEN Err("unrecognized tag")
    ELSE The({ IF tagvalue.kind # "ok" THEN tagvalue
               ELSE The({ readEntries(r, h, currentOffset, n, stored) :
                            n \in {left - 1},
                            stored \in {tagStore(tags, read.Tag, tagvalue.tag)} }) :
                 tagvalue \in { value(r, entryRead(read, currentOffset),
                                      h.byteOrder) } })

\* the outer loop of readTags: the stream is at pos, and iFDOffset is the
\* offset last read (it is tested against 0, and never sought)
readDirectories(r, h, pos, iFDOffset, tags) ==
    IF iFDOffset = u32(0) THEN OkTags(tags, h, pos)
    ELSE IF ~avail(r, pos, 2) THEN Err("unable to read directory entry")
    ELSE The({ IF es.kind # "ok" THEN es
               ELSE IF ~avail(r, es.pos, 4) THEN Err("could not jump to next file")
               ELSE The({ readDirectories(r, h, es.pos + 4, next, es.tags) :
                            next \in {readUint32(r, es.pos, h.byteOrder)} }) :
                 es \in { readEntries(r, h, pos + 2,
                                      readUint16(r, pos, h.byteOrder), tags) } })

readTags(r) ==
    The({ IF hd.kind # "ok" THEN Err("failed to read tiff header")
          ELSE readDirectories(r, hd.head, ToInt(hd.head.iFDByteOffset),
                               hd.head.iFDByteOffset, << >>) :
            hd \in {readHeader(r)} })

\* [][]float32 returned
OkData(d) == [kind |-> "ok", data |-> d]

\* shortData[f][0] / longData[f] in readData and Read: the slice stored for
\* f when its tag has that type, a nil slice otherwise
sliceOf(tags, f, ftype) ==
    IF tagValue(tags[f]).ftype = ftype THEN tagValue(tags[f]).elem ELSE << >>

RECURSIVE readTiles(_, _, _, _, _, _)

\* the loop of readData over offsets, from index Len(data) (of Go), data
\* being the tiles appended so far
readTiles(r, h, offsets, byteCounts, bitsPerSample, data) ==
    LET i == Len(data)
    IN  IF i >= Len(offsets) THEN OkData(data)
        ELSE IF i >= Len(byteCounts) THEN Panic("index out of range")
        ELSE IF bitsPerSample \div eightByte = 0
          THEN Panic("integer divide by zero")
        ELSE
          LET numPixels == ToInt(Div32(byteCounts[i + 1],
                                       bitsPerSample \div eightByte))
              offset    == ToInt(offsets[i + 1])
          IN  IF ~avail(r, offset, IntMul(numPixels, 4))
                THEN Err("could not read GeoTIFF data: could not read bytes")
              ELSE The({ readTiles(r, h, offsets, byteCounts, bitsPerSample,
                                   appended) :
                           appended \in { Append(data,
                              readSlice(r, offset, numPixels, FLOAT,
                                        h.byteOrder)) } })

\* the fields readData needs, in the order it looks them up
readDataFields ==
    <<BitsPerSample, ImageLength, ImageWidth, TileWidth, TileLength,
      TileByteCounts, TileOffsets>>

\* the first field of `fields` outside the set `good`, 0 if there is none
firstFailing(fields, good) ==
    IF \A k \in 1..Len(fields) : fields[k] \in good THEN 0
    ELSE LET k == CHOOSE j \in 1..Len(fields) :
                    /\ fields[j] \notin good
                    /\ \A m \in 1..(j - 1) : fields[m] \in good
         IN  fields[k]

\* the error of the lookup loops of readData and Read at field `bad`
fieldErr(tags, bad) ==
    IF bad \notin DOMAIN tags
      THEN Err("could not read GeoTIFF data, could not retrieve")
    ELSE Err("could not read GeoTIFF data, incorrect data type")

\* readData after its lookup loop
readDataFrom(r, tags, header) ==
    LET shorts        == <<ImageWidth, ImageLength, TileWidth, TileLength,
                           BitsPerSample>>
        imageWidth    == sliceOf(tags, ImageWidth, SHORT)[1]
        imageLength   == sliceOf(tags, ImageLength, SHORT)[1]
        tileWidth     == sliceOf(tags, TileWidth, SHORT)[1]
        tileLength    == sliceOf(tags, TileLength, SHORT)[1]
        bitsPerSample == sliceOf(tags, BitsPerSample, SHORT)[1]
        offsets       == sliceOf(tags, TileOffsets, LONG)
        byteCounts    == sliceOf(tags, TileByteCounts, LONG)
    IN  IF \E k \in 1..Len(shorts) : sliceOf(tags, shorts[k], SHORT) = << >>
          THEN Panic("index out of range")
        ELSE IF tileWidth = 0 \/ tileLength = 0
          THEN Panic("integer divide by zero")
        ELSE IF Mul16(tilesAlong16(imageWidth, tileWidth),
                      tilesAlong16(imageLength, tileLength)) # Len(offsets)
          THEN Err("invalid number of offsets for tiles")
        ELSE The({ readTiles(r, header, o, b, bits, << >>) :
                     o \in {offsets}, b \in {byteCounts}, bits \in {bitsPerSample} })

readData(r, tags, header) ==
    The({ IF bad # 0 THEN fieldErr(tags, bad)
          ELSE readDataFrom(r, tags, header) :
            bad \in { firstFailing(readDataFields,
                        { f \in DOMAIN tags :
                            tagValue(tags[f]).ftype \in {SHORT, LONG} }) } })

\* the fields Read needs as SHORT, in the order it looks them up
readFields == <<ImageLength, ImageWidth, TileWidth, TileLength>>

\* Read after readTags and readData returned gTags and gData
ReadFrom(gTags, gData) ==
    LET bad == firstFailing(readFields,
                 { f \in DOMAIN gTags : tagValue(gTags[f]).ftype = SHORT })
        pixelScale == tagLookup(gTags, ModelPixelScale)
        pixelScaleValues == tagValue(pixelScale).elem
    IN  IF bad # 0 THEN fieldErr(gTags, bad)
        ELSE IF ToInt(pixelScale.length) # 3
          THEN Err("ModelPixelScale has invalid length")
        ELSE IF tagValue(pixelScale).ftype # DOUBLE
          THEN Err("unrecognized value for ModelPixelScale")
        ELSE OkImage([nil |-> FALSE,
                      tags |-> gTags,
                      data |-> gData,
                      imageWidth  |-> sliceOf(gTags, ImageWidth, SHORT)[1],
                      imageLength |-> sliceOf(gTags, ImageLength, SHORT)[1],
                      tileWidth   |-> sliceOf(gTags, TileWidth, SHORT)[1],
                      tileLength  |-> sliceOf(gTags, TileLength, SHORT)[1],
                      PixelScaleX |-> pixelScaleValues[1],
                      PixelScaleY |-> pixelScaleValues[2]])

Read(r) ==
    The({ IF t.kind # "ok" THEN [kind |-> t.kind, msg |-> t.msg]
          ELSE The({ IF d.kind # "ok" THEN d ELSE ReadFrom(t.tags, d.data) :
                       d \in {readData(r, t.tags, t.head)} }) :
            t \in {readTags(r)} })

----------------------------------------------------------------------------
(* TIFF files: the bytes of a header, one directory, the values that do    *)
(* not fit their entries, and the tiles                                    *)

\* n as k bytes, most significant first
bytesOfInt(n, k) == [i \in 1..k |-> (n \div 256^(k - i)) % 256]

RECURSIVE log2(_)
\* the exponent of the leading bit of a > 0
log2(a) == IF a < 2 THEN 0 ELSE 1 + log2(a \div 2)

\* the IEEE 754 single of an integer of at most 24 bits
bitsOfFloat32(n) ==
    IF n = 0 THEN <<0, 0, 0, 0>>
    ELSE LET a    == Abs(n)
             e    == log2(a)
             frac == a * 2^(23 - e) - 2^23
             ex   == e + 127
             s    == IF n < 0 THEN 1 ELSE 0
         IN  <<s * 128 + ex \div 2, (ex % 2) * 128 + frac \div 65536,
               (frac \div 256) % 256, frac % 256>>

\* the IEEE 754 double of an integer of at most 21 bits
bitsOfFloat64(n) ==
    IF n = 0 THEN <<0, 0, 0, 0, 0, 0, 0, 0>>
    ELSE LET a    == Abs(n)
             e    == log2(a)
             frac == a * 2^(20 - e) - 2^20
             ex   == e + 1023
             s    == IF n < 0 THEN 1 ELSE 0
         IN  <<s * 128 + ex \div 16, (ex % 16) * 16 + frac \div 65536,
               (frac \div 256) % 256, frac % 256, 0, 0, 0, 0>>

\* bytes given most significant first, in the order byteOrder writes them
written(b, byteOrder) == msbFirst(b, byteOrder)

RECURSIVE concat(_)
concat(ss) == IF ss = << >> THEN << >> ELSE Head(ss) \o concat(Tail(ss))

\* one value of field type f as the file holds it
valueBytes(f, v, byteOrder) ==
    CASE f = SHORT  -> written(bytesOfInt(v, 2), byteOrder)
      [] f = LONG   -> written(bytesOfInt(v, 4), byteOrder)
      [] f = FLOAT  -> written(bitsOfFloat32(v), byteOrder)
      [] f = DOUBLE -> written(bitsOfFloat64(v), byteOrder)
      [] OTHER      -> <<v>>

\* the value of a field: e.vals in sequence
fieldBytes(e, byteOrder) ==
    concat([i \in 1..Len(e.vals) |-> valueBytes(e.ftype, e.vals[i], byteOrder)])

\* a field [tag, ftype, count, vals] is out of line when its value is longer
\* than the four bytes of ValueOffset
outOfLine(e) == Len(fieldBytes(e, "BigEndian")) > fourByte

\* the bytes of entries 1..k that are out of line
outOfLineLen(entries, k) ==
    LET RECURSIVE sum(_)
        sum(i) == IF i = 0 THEN 0
                  ELSE sum(i - 1) + (IF outOfLine(entries[i])
                                       THEN Len(fieldBytes(entries[i], "BigEndian"))
                                     ELSE 0)
    IN  sum(k)

\* the first directory follows the header
firstIFD == 8

\* where the out-of-line values start: after the two bytes of the entry
\* count, the 12-byte entries and the four bytes of the next offset
valuesStart(entries) == firstIFD + 2 + 12 * Len(entries) + 4

\* where the tiles start: after the out-of-line values
tilesStart(entries) == valuesStart(entries) + outOfLineLen(entries, Len(entries))

\* value bytes padded to the four bytes of ValueOffset
padded(b) == b \o [i \in 1..(fourByte - Len(b)) |-> 0]

\* the 12 bytes of entry k
entryBytes(entries, k, byteOrder) ==
    LET e == entries[k]
    IN  written(bytesOfInt(e.tag, 2), byteOrder)
        \o written(bytesOfInt(e.ftype, 2), byteOrder)
        \o written(bytesOfInt(e.count, 4), byteOrder)
        \o (IF outOfLine(e)
              THEN written(bytesOfInt(valuesStart(entries)
                                        + outOfLineLen(entries, k - 1), 4),
                           byteOrder)
            ELSE padded(fieldBytes(e, byteOrder)))

\* a file of one directory holding `entries`, followed by the bytes `tail`
tiffFile(byteOrder, entries, tail) ==
    written(bytesOfInt(IF byteOrder = "BigEndian" THEN bigEndian
                       ELSE littleEndian, 2), "BigEndian")
    \o written(bytesOfInt(tiffIdentifier, 2), byteOrder)
    \o written(bytesOfInt(firstIFD, 4), byteOrder)
    \o written(bytesOfInt(Len(entries), 2), byteOrder)
    \o concat([k \in 1..Len(entries) |-> entryBytes(entries, k, byteOrder)])
    \o written(bytesOfInt(0, 4), byteOrder)
    \o concat([k \in 1..Len(entries) |->
                 IF outOfLine(entries[k]) THEN fieldBytes(entries[k], byteOrder)
                 ELSE << >>])
    \o tail

field(tag, ftype, vals) ==
    [tag |-> tag, ftype |-> ftype, count |-> Len(vals), vals |-> vals]

\* the offsets of tiles of lens[t] samples laid out from `start`
RECURSIVE tileOffsetsFrom(_, _)
tileOffsetsFrom(start, lens) ==
    IF lens = << >> THEN << >>
    ELSE <<start>> \o tileOffsetsFrom(start + 4 * Head(lens), Tail(lens))

\* the fields of a tiled image whose tiles lie at `offsets`; p gives the
\* dimensions, the bits per sample, the samples of each tile, the pixel
\* scale and the tiepoint (an empty sequence leaves the field out)
imageFields(p, offsets) ==
    <<field(ImageWidth, SHORT, <<p.iWidth>>),
      field(ImageLength, SHORT, <<p.iLength>>),
      field(BitsPerSample, SHORT, <<p.bits>>),
      field(TileWidth, SHORT, <<p.tWidth>>),
      field(TileLength, SHORT, <<p.tLength>>),
      field(TileOffsets, LONG, offsets),
      field(TileByteCounts, LONG,
            [t \in 1..Len(p.data) |-> (p.bits \div 8) * Len(p.data[t])])>>
    \o (IF p.scale = << >> THEN << >>
        ELSE <<field(ModelPixelScale, DOUBLE, p.scale)>>)
    \o (IF p.tiepoint = << >> THEN << >>
        ELSE <<field(ModelTiepoint, DOUBLE, p.tiepoint)>>)

\* the file of a tiled image
imageFile(p) ==
    LET lens    == [t \in 1..Len(p.data) |-> Len(p.data[t])]
        start   == tilesStart(imageFields(p, [t \in 1..Len(lens) |-> 0]))
        offsets == tileOffsetsFrom(start, lens)
    IN  tiffFile(p.byteOrder, imageFields(p, offsets),
                 concat([t \in 1..Len(p.data) |->
                    concat([i \in 1..Len(p.data[t]) |->
                       written(bitsOfFloat32(p.data[t][i]), p.byteOrder)])]))

----------------------------------------------------------------------------
(* Inputs *)

\* uint16 dimensions: the small ones, and the ones at which 16-bit
\* arithmetic wraps
DimVals == (0..MaxDim) \cup {256, 65535}

\* the sample New is given at index i of tile t: distinct for distinct (t, i)
sampleOf(t, i) == t * (MaxTileLen + 2) + i + 1

\* tile arrays with lens[t] samples in tile t
dataOf(lens) ==
    [t \in 1..Len(lens) |-> [i \in 1..lens[t] |-> sampleOf(t - 1, i - 1)]]

\* n tiles of L samples each
uniformLens(n, L) == [t \in 1..n |-> L]

\* all tile-array collections drawn: uniform ones, and uniform ones with one
\* tile a sample longer
DataSet ==
    { dataOf(uniformLens(n, L)) : n \in 0..MaxTiles, L \in 0..MaxTileLen }
    \cup
    UNION { { dataOf([uniformLens(n, L) EXCEPT ![k] = L + 1]) :
                L \in 0..MaxTileLen, k \in 1..n } : n \in 1..MaxTiles }

\* arguments of New for the tile-addressing specification
TileInputs ==
    [data : DataSet, iWidth : DimVals, iLength : DimVals,
     tWidth : DimVals, tLength : DimVals, pX : {1}, pY : {1}, tags : {NilTags}]

\* pixel coordinates handed to loc
PixelCoords == (-1..MaxCoord) \cup {65534, 65535}

tiepointTag(I, J, X, Y) ==
    tagData(DOUBLE, u32(6), <<I, J, 0, X, Y, 0>>)

\* the well-formed tiepoints handed to New: at the raster origin and off it
TiepointTables ==
    { (ModelTiepoint :> tiepointTag(IJ[1], IJ[2], XY[1], XY[2])) :
        IJ \in {<<0, 0>>, <<1, 0>>, <<0, 1>>}, XY \in {<<0, 4>>, <<1, 4>>} }

\* the tag tables handed to New that hold no such tiepoint: none, tiepoints
\* of the wrong length or type, and another tag only
FaultyTables ==
    { NilTags,
      (ModelTiepoint :> tagData(DOUBLE, u32(5), <<0, 0, 0, 0, 4>>)),
      (ModelTiepoint :> tagData(FLOAT, u32(6), <<0, 0, 0, 0, 4, 0>>)),
      (ModelTiepoint :> tagData(NONE, u32(6), << >>)),
      (ModelPixelScale :> tagData(DOUBLE, u32(3), <<1, 1, 0>>)) }

\* the pixel scales (pX, pY) handed to New: positive, zero and negative
ScalePairs ==
    { <<1, 1>>, <<2, 2>>, <<2, 1>>, <<0, 0>>, <<0, 1>>, <<-1, 1>>, <<1, -1>> }

\* arguments of New for a 3 x 2 image in 2 x 2 tiles (the right tile is
\* partial)
geoInput(scale, tags) ==
    [data |-> dataOf(uniformLens(2, 4)), iWidth |-> 3, iLength |-> 2,
     tWidth |-> 2, tLength |-> 2, pX |-> scale[1], pY |-> scale[2],
     tags |-> tags]

\* arguments of New for the georeferencing specification
GeoInputs ==
    { geoInput(scale, tags) : scale \in ScalePairs, tags \in TiepointTables }
    \cup { geoInput(<<1, 1>>, tags) : tags \in FaultyTables }

\* the targets whose conversion of a float64 without int value the model
\* knows
Archs == {"amd64", "arm64"}

Lons == -1..MaxLon

Lats == -1..MaxLat

\* point lists handed to AtPoints
PointLists ==
    LET P == { Point(1, 4), Point(2, 3), Point(-1, 0) }
    IN  { << >> } \cup { <<p>> : p \in P } \cup { <<p, q>> : p \in P, q \in P }

ByteOrders == {"LittleEndian", "BigEndian"}

\* files for the tile-addressing specification: dimensions at which the
\* 16-bit tile count is exact, is wrong, wraps and divides by zero, with
\* tiles that are full, short and absent
TileFiles ==
    { imageFile([byteOrder |-> o, iWidth |-> d[1], iLength |-> d[2],
                 tWidth |-> d[3], tLength |-> d[4], bits |-> b,
                 data |-> dataOf(uniformLens(n, L)),
                 scale |-> <<1, 1, 0>>, tiepoint |-> << >>]) :
        o \in ByteOrders,
        d \in { <<MaxDim, 2, 2, 2>>, <<65535, 2, 2, 2>>, <<1, 1, 256, 256>>,
                <<1, 1, 0, 1>> },
        b \in {32, 16, 4},
        n \in 0..2, L \in {0, MaxTileLen - 1, MaxTileLen} }

\* a well-formed file of a 3 x 2 image in 2 x 2 tiles
goodFile(o, scale, tiepoint) ==
    imageFile([byteOrder |-> o, iWidth |-> 3, iLength |-> 2,
               tWidth |-> 2, tLength |-> 2, bits |-> 32,
               data |-> dataOf(uniformLens(2, 4)),
               scale |-> scale, tiepoint |-> tiepoint])

\* files for the georeferencing specification: a pixel scale that is
\* absent, too short, positive, zero and negative, with a tiepoint at the
\* origin, off it, too short, and absent
GeoFiles ==
    { goodFile(o, scale, tiepoint) :
        o \in ByteOrders,
        scale \in { << >>, <<1, 1>>, <<1, 1, 0>>, <<2, 1, 0>>, <<0, 0, 0>>,
                    <<-1, 2, 0>> },
        tiepoint \in { << >>, <<0, 0, 0, 0, 4, 0>>, <<1, 0, 0, 1, 4, 0>>,
                       <<0, 0, 0, 0, 4>> } }

\* every prefix of a well-formed file
TruncatedFiles ==
    LET whole == goodFile("LittleEndian", <<1, 1, 0>>, <<0, 0, 0, 0, 4, 0>>)
    IN  { SubSeq(whole, 1, k) : k \in 0..Len(whole) }

----------------------------------------------------------------------------
(* The program: one constructor call, then queries on the image it made *)

Init ==
    /\ g = NilImage
    /\ made = [by |-> "none"]
    /\ call = [name |-> "none"]
    /\ ret = [kind |-> "none"]
    /\ nq = 0

\* g, err := New(...)
NewOp(Inputs) ==
    /\ call.name = "none"
    /\ \E in \in Inputs :
         LET r == New(in.data, in.iWidth, in.iLength, in.tWidth, in.tLength,
                      in.pX, in.pY, in.tags)
         IN  /\ g' = IF r.kind = "ok" THEN r.image ELSE NilImage
             /\ made' = [by |-> "New", in |-> in]
             /\ call' = [name |-> "New"]
             /\ ret' = IF r.kind = "ok" THEN [kind |-> "ok"] ELSE r
    /\ UNCHANGED nq

\* g, err := Read(r)
ReadOp(Files) ==
    /\ call.name = "none"
    /\ \E r \in Files : \E res \in {Read(r)} :
             /\ g' = IF res.kind = "ok" THEN res.image ELSE NilImage
             /\ made' = [by |-> "Read", file |-> r]
             /\ call' = [name |-> "Read"]
             /\ ret' = IF res.kind = "ok" THEN [kind |-> "ok"]
                       ELSE [kind |-> res.kind, msg |-> res.msg]
    /\ UNCHANGED nq

\* a query runs on a constructed image, in a process that has not panicked
CanQuery == ~g.nil /\ ret.kind # "panic" /\ nq < MaxQueries

LocOp ==
    /\ CanQuery
    /\ \E x \in PixelCoords, y \in PixelCoords :
         /\ call' = [name |-> "loc", x |-> x, y |-> y]
         /\ ret' = loc(g, x, y)
    /\ nq' = nq + 1
    /\ UNCHANGED <<g, made>>

BoundsOp ==
    /\ CanQuery
    /\ call' = [name |-> "Bounds"]
    /\ ret' = Bounds(g)
    /\ nq' = nq + 1
    /\ UNCHANGED <<g, made>>

AtCoordOp ==
    /\ CanQuery
    /\ \E x \in Lons, y \in Lats, interpolate \in BOOLEAN, arch \in Archs :
         /\ call' = [name |-> "AtCoord", x |-> x, y |-> y,
                                        interp |-> interpolate]
         /\ ret' = AtCoord(g, x, y, interpolate, arch)
    /\ nq' = nq + 1
    /\ UNCHANGED <<g, made>>

AtPointsOp ==
    /\ CanQuery
    /\ \E points \in PointLists, interpolate \in BOOLEAN, arch \in Archs :
         /\ call' = [name |-> "AtPoints", points |-> points,
                                         interp |-> interpolate]
         /\ ret' = AtPoints(g, points, interpolate, arch)
    /\ nq' = nq + 1
    /\ UNCHANGED <<g, made>>

\* tile addressing: New or Read on dimensions over the uint16 range, then loc
NextTiles == NewOp(TileInputs) \/ ReadOp(TileFiles) \/ LocOp

SpecTiles == Init /\ [][NextTiles]_vars

\* georeferencing: New or Read on pixel scales and tag tables, then the
\* queries
NextGeo ==
    \/ NewOp(GeoInputs)
    \/ ReadOp(GeoFiles)
    \/ ReadOp(TruncatedFiles)
    \/ BoundsOp
    \/ AtCoordOp
    \/ AtPointsOp

SpecGeo == Init /\ [][NextGeo]_vars

----------------------------------------------------------------------------
(* readData on the tag table of a file, as readTags returned it or with    *)
(* one of the fields readData needs absent or of another type              *)

\* a value of n elements of type ftype as readTags stores it (no elements
\* for the types value() does not decode)
storedValue(ftype, n) ==
    tagData(ftype, u32(n),
            IF ftype \notin {BYTE, ASCII, SHORT, LONG, FLOAT, DOUBLE} THEN << >>
            ELSE [i \in 1..n |-> IF ftype = LONG THEN u32(2) ELSE 2])

\* the table `tags` without the field f
without(tags, f) == [t \in DOMAIN tags \ {f} |-> tags[t]]

\* the stream of a well-formed file, the header and the tag table readTags
\* returns for it, and that table with one field changed
dataInputsOf(o) ==
    LET r == goodFile(o, <<1, 1, 0>>, <<0, 0, 0, 0, 4, 0>>)
        t == readTags(r)
    IN  { [r |-> r, header |-> t.head, tags |-> t.tags] }
        \cup { [r |-> r, header |-> t.head, tags |-> without(t.tags, f)] :
                 f \in { readDataFields[k] : k \in 1..Len(readDataFields) } }
        \cup { [r |-> r, header |-> t.head,
                tags |-> tagStore(t.tags, f, storedValue(ftype, n))] :
                 f \in { readDataFields[k] : k \in 1..Len(readDataFields) },
                 ftype \in {BYTE, SHORT, LONG, RATIONAL, DOUBLE},
                 n \in 0..MaxStored }

DataInputs == UNION { dataInputsOf(o) : o \in ByteOrders }

\* data, err := readData(r, tags, header)
ReadDataOp(Inputs) ==
    /\ call.name = "none"
    /\ \E in \in Inputs : \E res \in {readData(in.r, in.tags, in.header)} :
         /\ made' = [by |-> "readData", in |-> in]
         /\ call' = [name |-> "readData"]
         /\ ret' = res
    /\ UNCHANGED <<g, nq>>

\* the stream, the header and the tag table of every file of TileFiles
TileDataInputs ==
    { The({ [r |-> r, header |-> t.head, tags |-> t.tags] :
              t \in {readTags(r)} }) : r \in TileFiles }

NextData == ReadDataOp(DataInputs) \/ ReadDataOp(TileDataInputs)

SpecData == Init /\ [][NextData]_vars

----------------------------------------------------------------------------
(* Queries of several callers on one image.  `call` holds the frame of    *)
(* every caller (idle, running a query, or done with it), `ret` what each  *)
(* query returned; `made` keeps the image as the constructor returned it.  *)

Callers == 1..MaxCallers

\* arguments of New for the images that are shared
QueryInputs ==
    { geoInput(scale, tags) :
        scale \in {<<1, 1>>, <<0, 0>>}, tags \in TiepointTables \cup {NilTags} }

\* the queries a caller makes (interp is reached through AtCoord)
Queries ==
    { [name |-> "loc", x |-> c[1], y |-> c[2]] :
        c \in {<<0, 0>>, <<2, 1>>, <<3, 0>>} }
    \cup { [name |-> "Bounds"] }
    \cup { [name |-> "AtCoord", x |-> c[1], y |-> c[2], interp |-> FALSE,
            arch |-> arch] : c \in {<<1, 4>>, <<0, 4>>}, arch \in Archs }
    \cup { [name |-> "AtCoord", x |-> 1, y |-> 3, interp |-> TRUE,
            arch |-> "amd64"] }
    \cup { [name |-> "AtPoints", points |-> points, interp |-> FALSE,
            arch |-> "amd64"] :
             points \in { << >>, <<Point(1, 4)>>, <<Point(-1, 0), Point(1, 4)>> } }

\* what the query q returns on the image im
runQuery(im, q) ==
    CASE q.name = "loc"      -> loc(im, q.x, q.y)
      [] q.name = "Bounds"   -> Bounds(im)
      [] q.name = "AtCoord"  -> AtCoord(im, q.x, q.y, q.interp, q.arch)
      [] q.name = "AtPoints" -> AtPoints(im, q.points, q.interp, q.arch)

\* the image is handed to the callers
ShareOp ==
    /\ call.name \in {"New", "Read"}
    /\ ~g.nil
    /\ made' = [by |-> made.by, image |-> g]
    /\ call' = [name |-> "queries",
                frames |-> [c \in Callers |-> [pc |-> "idle"]]]
    /\ ret' = [kind |-> "none",
               of |-> [c \in Callers |-> [kind |-> "none"]]]
    /\ UNCHANGED <<g, nq>>

\* callers run while no query has panicked
Running ==
    /\ call.name = "queries"
    /\ \A c \in Callers : ret.of[c].kind # "panic"

\* caller c enters a query; overlapped records whether another caller was
\* inside one
StartOp(c) ==
    /\ Running
    /\ call.frames[c].pc = "idle"
    /\ \E q \in Queries :
         call' = [call EXCEPT !.frames[c] =
                    [pc |-> "running", q |-> q,
                     overlapped |-> \E d \in Callers \ {c} :
                                      call.frames[d].pc = "running"]]
    /\ UNCHANGED <<g, made, ret, nq>>

\* a query of caller c that also empties the tag table it has read
FinishOpConsuming(c) ==
    /\ Running
    /\ call.frames[c].pc = "running"
    /\ ret' = [ret EXCEPT !.of[c] = runQuery(g, call.frames[c].q)]
    /\ call' = [call EXCEPT !.frames[c].pc = "done"]
    /\ g' = [g EXCEPT !.tags = NilTags]
    /\ UNCHANGED <<made, nq>>

\* caller c's query returns: it has read g and written nothing of it
FinishOp(c) ==
    /\ Running
    /\ call.frames[c].pc = "running"
    /\ ret' = [ret EXCEPT !.of[c] = runQuery(g, call.frames[c].q)]
    /\ call' = [call EXCEPT !.frames[c].pc = "done"]
    /\ UNCHANGED <<g, made, nq>>

NextQueries ==
    \/ NewOp(QueryInputs)
    \/ ShareOp
    \/ \E c \in Callers : StartOp(c)
    \/ \E c \in Callers : FinishOp(c)

SpecQueries == Init /\ [][NextQueries]_vars

----------------------------------------------------------------------------
(* Files of chained directories, for readTags *)

\* the stream f with the bytes b written at offset `at`
overlay(f, at, b) ==
    [i \in 1..Len(f) |-> IF i > at /\ i <= at + Len(b) THEN b[i - at] ELSE f[i]]

\* the stream f with every part [at, bytes] of `parts` written, in sequence
RECURSIVE overlayAll(_, _)
overlayAll(f, parts) ==
    IF parts = << >> THEN f
    ELSE overlayAll(overlay(f, Head(parts).at, Head(parts).bytes), Tail(parts))

\* the four bytes of a uint32, most significant first
bytesOfU32(u) == bytesOfInt(u[1], 2) \o bytesOfInt(u[2], 2)

\* the 12 bytes of an entry whose ValueOffset slot holds the bytes `slot`
rawEntry(tag, ftype, count, slot) ==
    [tag |-> tag, ftype |-> ftype, count |-> count, slot |-> slot]

rawEntryBytes(e, byteOrder) ==
    written(bytesOfInt(e.tag, 2), byteOrder)
    \o written(bytesOfInt(e.ftype, 2), byteOrder)
    \o written(bytesOfU32(e.count), byteOrder)
    \o e.slot

\* a directory: the entry count, the entries, the offset of the next one
dirBytes(d, byteOrder) ==
    written(bytesOfInt(Len(d.entries), 2), byteOrder)
    \o concat([k \in 1..Len(d.entries) |-> rawEntryBytes(d.entries[k], byteOrder)])
    \o written(bytesOfInt(d.next, 4), byteOrder)

\* the eight bytes of a header
headerBytes(byteOrder, first) ==
    written(bytesOfInt(IF byteOrder = "BigEndian" THEN bigEndian
                       ELSE littleEndian, 2), "BigEndian")
    \o written(bytesOfInt(tiffIdentifier, 2), byteOrder)
    \o written(bytesOfInt(first, 4), byteOrder)

\* a file of `size` bytes: a header pointing at `first`, each directory d of
\* dirs at d.at, each part of blobs at its offset, zero elsewhere
chainFile(byteOrder, first, dirs, blobs, size) ==
    overlayAll([i \in 1..size |-> 0],
               <<[at |-> 0, bytes |-> headerBytes(byteOrder, first)]>>
               \o [k \in 1..Len(dirs) |->
                     [at |-> dirs[k].at, bytes |-> dirBytes(dirs[k], byteOrder)]]
               \o blobs)

\* where the files below keep the values that lie outside their entries
dataAt == 32

\* the bytes kept there: 1, 2, 3, ...
dataBytes == [i \in 1..(MaxCount * eightByte) |-> i]

\* the type codes entries are written with: NONE, the twelve types, and
\* codes above DOUBLE
TypeCodes == NONE..(DOUBLE + 2) \cup {W16 - 1}

\* the counts entries are written with: small ones, 2^30 and 2^31
CountVals == { u32(c) : c \in 0..MaxCount } \cup { <<W16 \div 4, 0>>, <<W16 \div 2, 0>> }

\* files of one directory of one entry, of every type code and count; the
\* entry's slot points at the data or beyond the end of the file
EntryFiles ==
    { chainFile(o, firstIFD,
                << [at |-> firstIFD,
                    entries |-> << rawEntry(ImageWidth, f, c,
                                            written(bytesOfInt(slot, 4), o)) >>,
                    next |-> 0] >>,
                << [at |-> dataAt, bytes |-> dataBytes] >>,
                dataAt + Len(dataBytes)) :
        o \in ByteOrders, f \in TypeCodes, c \in CountVals,
        slot \in {dataAt, 2 * (dataAt + Len(dataBytes))} }

\* a directory of n SHORT entries of one value each, all of tag `tag`, the
\* k-th holding the value v + k
shortDir(at, tag, n, v, next, byteOrder) ==
    [at |-> at,
     entries |-> [k \in 1..n |->
                    rawEntry(tag, SHORT, u32(1),
                             padded(written(bytesOfInt(v + k, 2), byteOrder)))],
     next |-> next]

\* where a directory ends that starts at `at` and holds n entries
dirEnd(at, n) == at + 2 + 12 * n + fourByte

\* how far behind the end of the first directory a second one may lie
dirGap == 10

\* the offset a directory at `self` stores as its next one
linkTo(sel, self, other) ==
    CASE sel = "other" -> other
      [] sel = "self"  -> self
      [] sel = "none"  -> 0

\* files of two directories of n entries each: the second directly behind
\* the first or dirGap bytes further, the first pointing at the second, at
\* itself or nowhere, the second pointing nowhere, at the first or at
\* itself; both carry one tag n times, the same tag or different ones
chainFilesOf(n) ==
    { chainFile(o, firstIFD,
                << shortDir(firstIFD, ImageWidth, n, 16,
                            linkTo(next1, firstIFD, second), o),
                   shortDir(second, t, n, 32,
                            linkTo(next2, second, firstIFD), o) >>,
                << >>, dirEnd(dirEnd(firstIFD, n) + dirGap, n)) :
        o \in ByteOrders, t \in {ImageWidth, ImageLength},
        second \in {dirEnd(firstIFD, n), dirEnd(firstIFD, n) + dirGap},
        next1 \in {"other", "self", "none"},
        next2 \in {"none", "other", "self"} }

ChainFiles == UNION { chainFilesOf(n) : n \in 1..MaxEntries }

\* the first eight bytes of a file: markers, identifiers and offsets that
\* are right in one byte order, in the other, or in none
HeaderFiles ==
    { marker \o ident \o offset :
        marker \in {<<73, 73>>, <<77, 77>>, <<73, 77>>, <<77, 73>>, <<0, 0>>},
        ident  \in {<<42, 0>>, <<0, 42>>, <<42, 42>>, <<0, 0>>},
        offset \in {<<8, 0, 0, 0>>, <<0, 0, 0, 8>>, <<1, 2, 3, 4>>, <<0, 0, 0, 0>>} }
    \cup { SubSeq(headerBytes(o, firstIFD), 1, k) : o \in ByteOrders, k \in 0..7 }

----------------------------------------------------------------------------
(* readTags, one read of the stream at a time.  `call` is the frame of the *)
(* running call: pc is where it stands, hd what readHeader returned, pos   *)
(* the position of the stream, iFDOffset, left (numDirectoryEntries - i)   *)
(* and tags its locals, entry the iFDEntry read last, entryAt where it was  *)
(* read, valued whether value() was called on it and seeked the offset     *)
(* value() then sought.  `made` keeps what was read where: one record per  *)
(* directory and per entry.                                                *)

\* the frame once readTags has returned
returned(frame) == [frame EXCEPT !.pc = "done"]

\* tags, h, err := readTags(r), up to the first test of the outer loop
ReadTagsOp(Files) ==
    /\ call.name = "none"
    /\ \E r \in Files : \E hd \in {readHeader(r)} :
         /\ made' = [by |-> "readTags", file |-> r, dirs |-> << >>,
                     entries |-> << >>]
         /\ IF hd.kind # "ok"
              THEN /\ call' = [name |-> "readTags", pc |-> "done", hd |-> hd]
                   /\ ret' = Err("failed to read tiff header")
            ELSE /\ call' = [name |-> "readTags", pc |-> "dir", hd |-> hd,
                             pos |-> ToInt(hd.head.iFDByteOffset),
                             iFDOffset |-> hd.head.iFDByteOffset,
                             left |-> 0, tags |-> << >>,
                             entry |-> [Tag |-> 0, FType |-> NONE,
                                        Count |-> u32(0), ValueOffset |-> u32(0)],
                             entryAt |-> 0, valued |-> FALSE,
                             seeked |-> u32(0)]
                 /\ ret' = [kind |-> "none"]
    /\ UNCHANGED <<g, nq>>

\* the walk is at pc
walkAt(pc) == call.name = "readTags" /\ call.pc = pc

\* the test of the outer loop, and the entry count of a directory
DirStep ==
    /\ walkAt("dir")
    /\ LET r == made.file
           h == call.hd.head
       IN  IF call.iFDOffset = u32(0)
             THEN /\ call' = returned(call)
                  /\ ret' = OkTags(call.tags, h, call.pos)
                  /\ UNCHANGED made
           ELSE IF ~avail(r, call.pos, 2)
             THEN /\ call' = returned(call)
                  /\ ret' = Err("unable to read directory entry")
                  /\ UNCHANGED made
           ELSE /\ call' = [call EXCEPT !.pc = "entry",
                              !.left = readUint16(r, call.pos, h.byteOrder),
                              !.pos = call.pos + 2]
                /\ made' = [made EXCEPT !.dirs =
                              Append(@, [declared |-> call.iFDOffset,
                                         readAt |-> call.pos])]
                /\ UNCHANGED ret
    /\ UNCHANGED <<g, nq>>

\* one turn of the inner loop
EntryStep ==
    /\ walkAt("entry")
    /\ call.left > 0
    /\ LET r == made.file
           h == call.hd.head
       IN  IF ~avail(r, call.pos, 12)
             THEN /\ call' = returned(call)
                  /\ ret' = Err("EOF")
                  /\ UNCHANGED made
           ELSE \E read \in { [Tag         |-> readUint16(r, call.pos, h.byteOrder),
                               FType       |-> readUint16(r, call.pos + 2, h.byteOrder),
                               Count       |-> readUint32(r, call.pos + 4, h.byteOrder),
                               ValueOffset |-> readUint32(r, call.pos + 8, h.byteOrder)] } :
                  IF bytesPanics(read.FType)
                    THEN /\ call' = [returned(call) EXCEPT
                                        !.entry = read, !.entryAt = call.pos,
                                        !.valued = FALSE]
                         /\ ret' = Panic("index out of range")
                         /\ UNCHANGED made
                  ELSE IF bytes(read.FType) = 0
                    THEN /\ call' = [returned(call) EXCEPT
                                        !.entry = read, !.entryAt = call.pos,
                                        !.valued = FALSE]
                         /\ ret' = Err("unrecognized tag")
                         /\ UNCHANGED made
                  ELSE \E tagvalue \in { value(r, entryRead(read, call.pos + 12),
                                               h.byteOrder) } :
                         IF tagvalue.kind # "ok"
                           THEN /\ call' = [returned(call) EXCEPT
                                               !.entry = read,
                                               !.entryAt = call.pos,
                                               !.valued = TRUE,
                                               !.seeked = entryRead(read,
                                                  call.pos + 12).ValueOffset]
                                /\ ret' = tagvalue
                                /\ UNCHANGED made
                         ELSE /\ call' = [call EXCEPT
                                            !.entry = read,
                                            !.entryAt = call.pos,
                                            !.valued = TRUE,
                                            !.seeked = entryRead(read,
                                               call.pos + 12).ValueOffset,
                                            !.tags = tagStore(@, read.Tag, tagvalue.tag),
                                            !.left = @ - 1,
                                            !.pos = @ + 12]
                              /\ made' = [made EXCEPT !.entries =
                                            Append(@, [read |-> read,
                                                       at |-> call.pos,
                                                       from |-> entryRead(read,
                                                          call.pos + 12).ValueOffset,
                                                       tag |-> tagvalue.tag])]
                              /\ UNCHANGED ret
    /\ UNCHANGED <<g, nq>>

\* the offset of the next directory, read behind the last entry
NextDirStep ==
    /\ walkAt("entry")
    /\ call.left = 0
    /\ LET r == made.file
           h == call.hd.head
       IN  IF ~avail(r, call.pos, 4)
             THEN /\ call' = returned(call)
                  /\ ret' = Err("could not jump to next file")
           ELSE /\ call' = [call EXCEPT !.pc = "dir",
                              !.iFDOffset = readUint32(r, call.pos, h.byteOrder),
                              !.pos = call.pos + 4]
                /\ UNCHANGED ret
    /\ UNCHANGED <<g, made, nq>>

\* readTags on headers, on entries of every type, on chained directories
NextWalk ==
    \/ ReadTagsOp(HeaderFiles)
    \/ ReadTagsOp(EntryFiles)
    \/ ReadTagsOp(ChainFiles)
    \/ DirStep
    \/ EntryStep
    \/ NextDirStep

SpecWalk == Init /\ [][NextWalk]_vars

\* readTags is not suspended for ever: a step that can be taken is taken
SpecWalkFair == SpecWalk /\ WF_vars(NextWalk)


----------------------------------------------------------------------------
(* Claims on tile addressing (checked under SpecTiles) *)

\* the last call was loc(x, y) on an image that New accepted
LocOnNewImage == made.by = "New" /\ ~g.nil /\ call.name = "loc"

InImage(x, y) ==
    0 <= x /\ x < g.imageWidth /\ 0 <= y /\ y < g.imageLength

\* data[t][i] with Go indices, -1 where data has no such sample
sampleAt(data, t, i) ==
    IF t < Len(data) /\ i < Len(data[t + 1]) THEN data[t + 1][i + 1] ELSE -1

\* the sample the tile layout puts at pixel (x, y), over exact integers
layoutSample(in, x, y) ==
    sampleAt(in.data,
             IntAdd(IntMul(CeilDiv(in.iWidth, in.tWidth), y \div in.tLength),
                    x \div in.tWidth),
             IntAdd(IntMul(y % in.tLength, in.tWidth), x % in.tWidth))

\* C1: on every image New accepted, loc(x, y) with 0 <= x < iWidth and
\* 0 <= y < iLength returns, without error, the sample
\* data[tilesAcross*(y div tLength) + (x div tWidth)]
\*     [(y mod tLength)*tWidth + (x mod tWidth)], tilesAcross = ceil(iWidth/tWidth)
C1_RoundTrip ==
    (LocOnNewImage /\ InImage(call.x, call.y))
        => /\ ret.kind = "ok"
           /\ ret.val = layoutSample(made.in, call.x, call.y)

\* C2: loc(x, y) returns an error and reads no tile buffer whenever x < 0,
\* y < 0, x >= imageWidth or y >= imageLength
C2_LocRejectsOutside ==
    (~g.nil /\ call.name = "loc" /\ ~InImage(call.x, call.y))
        => ret.kind = "err" /\ ret.reads = {}

\* a rejected coordinate inside the padding of the right partial tile
C2_Witness ==
    /\ ~g.nil /\ call.name = "loc"
    /\ call.x >= g.imageWidth
    /\ call.x < CeilDiv(g.imageWidth, g.tileWidth) * g.tileWidth
    /\ 0 <= call.y /\ call.y < g.imageLength
    /\ Len(g.data) > 0
    /\ ret.kind = "err" /\ ret.reads = {}

\* the last call was New
NewCalled == made.by = "New" /\ call.name = "New"

\* C3: every image New or Read returned holds exactly
\* ceil(imageWidth / tileWidth) * ceil(imageLength / tileLength) tile arrays,
\* the product being the exact integer, and New returns an error when it is
\* handed another number of tile arrays
C3_TileCount ==
    /\ ~g.nil =>
          Len(g.data) = IntMul(CeilDiv(g.imageWidth, g.tileWidth),
                               CeilDiv(g.imageLength, g.tileLength))
    /\ (NewCalled /\ made.in.tWidth > 0 /\ made.in.tLength > 0
          /\ Len(made.in.data) #
               IntMul(CeilDiv(made.in.iWidth, made.in.tWidth),
                      CeilDiv(made.in.iLength, made.in.tLength)))
        => ret.kind = "err"

\* C4: New returns an image only if every tile array has exactly
\* tileWidth * tileLength samples, the product being the exact integer, and
\* returns an error otherwise
C4_TileSizeExact ==
    NewCalled =>
      LET exact == allTilesLen(made.in.data,
                               IntMul(made.in.tWidth, made.in.tLength))
      IN  /\ ret.kind = "ok" => exact
          /\ ~exact => ret.kind = "err"

\* the tile grid as the code computes it in 16 bits is the exact one:
\* no tile dimension is zero, and tilesAcross, tilesDown and their product
\* are the integers ceil(iWidth / tWidth), ceil(iLength / tLength) and
\* their product
exactGrid(iWidth, iLength, tWidth, tLength) ==
    /\ tWidth > 0 /\ tLength > 0
    /\ tilesAlong16(iWidth, tWidth) = CeilDiv(iWidth, tWidth)
    /\ tilesAlong16(iLength, tLength) = CeilDiv(iLength, tLength)
    /\ Mul16(tilesAlong16(iWidth, tWidth), tilesAlong16(iLength, tLength))
         = CeilDiv(iWidth, tWidth) * CeilDiv(iLength, tLength)

\* the first element of the SHORT field f of a tag table, 1 if it has none
shortOf(tags, f) ==
    IF f \in DOMAIN tags /\ tags[f].shortData # << >>
      THEN tags[f].shortData[1] ELSE 1

\* the grid of the dimensions of a tag table is exact
exactGridOf(tags) ==
    exactGrid(shortOf(tags, ImageWidth), shortOf(tags, ImageLength),
              shortOf(tags, TileWidth), shortOf(tags, TileLength))

\* C23: for all 16-bit imageWidth, imageLength, tileWidth, tileLength the
\* tile-grid arithmetic of New, of readData (here called by Read) and of loc
\* either reports an error or uses the exact tilesAcross, tilesDown and
\* tilesPerImage: it never wraps modulo 2^16 and never divides by a tile
\* dimension that is zero
C23_GridExact ==
    /\ NewCalled
         => \/ ret.kind = "err"
            \/ exactGrid(made.in.iWidth, made.in.iLength,
                         made.in.tWidth, made.in.tLength)
    /\ (made.by = "Read" /\ call.name = "Read")
         => \/ ret.kind = "err"
            \/ exactGridOf(readTags(made.file).tags)
    /\ (~g.nil /\ call.name = "loc")
         => \/ ret.kind = "err"
            \/ /\ g.tileWidth > 0 /\ g.tileLength > 0
               /\ tilesAlong16(g.imageWidth, g.tileWidth)
                    = CeilDiv(g.imageWidth, g.tileWidth)

\* the same for the dimensions up to MaxDim, where it holds
GridExactSmall ==
    /\ (NewCalled /\ \A d \in {made.in.iWidth, made.in.iLength,
                               made.in.tWidth, made.in.tLength} :
                        0 < d /\ d <= MaxDim)
         => \/ ret.kind = "err"
            \/ exactGrid(made.in.iWidth, made.in.iLength,
                         made.in.tWidth, made.in.tLength)
    /\ (~g.nil /\ call.name = "loc"
          /\ g.imageWidth <= MaxDim /\ g.imageLength <= MaxDim
          /\ g.tileWidth <= MaxDim /\ g.tileLength <= MaxDim)
         => \/ ret.kind = "err"
            \/ /\ g.tileWidth > 0 /\ g.tileLength > 0
               /\ tilesAlong16(g.imageWidth, g.tileWidth)
                    = CeilDiv(g.imageWidth, g.tileWidth)

\* the last call was loc(x, y) on an image that Read returned
LocOnReadImage == made.by = "Read" /\ ~g.nil /\ call.name = "loc"

\* every tile buffer of the image holds at least tileWidth * tileLength
\* samples
tilesFull ==
    \A t \in 1..Len(g.data) :
        Len(g.data[t]) >= IntMul(g.tileWidth, g.tileLength)

\* C26: on every image Read returned without error, every tile buffer holds
\* at least tileWidth * tileLength samples, whatever TileByteCounts and
\* BitsPerSample the file declares, and loc(x, y) with 0 <= x < imageWidth
\* and 0 <= y < imageLength never indexes past the end of a tile buffer
C26_ReadTilesFull ==
    (made.by = "Read" /\ ~g.nil) =>
        /\ tilesFull
        /\ (call.name = "loc" /\ InImage(call.x, call.y))
              => ret.kind # "panic"

\* the same on the images of files that declare full tiles on an exact
\* grid, where it holds: loc returns the sample
ReadTilesFullDeclared ==
    (LocOnReadImage /\ InImage(call.x, call.y) /\ tilesFull
       /\ exactGrid(g.imageWidth, g.imageLength, g.tileWidth, g.tileLength))
        => /\ ret.kind = "ok"
           /\ ret.val = layoutSample([data |-> g.data,
                                      iWidth |-> g.imageWidth,
                                      iLength |-> g.imageLength,
                                      tWidth |-> g.tileWidth,
                                      tLength |-> g.tileLength],
                                     call.x, call.y)

\* loc returned the last sample of the right partial tile of an image that
\* Read made of two full tiles
ReadTilesFullReached ==
    /\ LocOnReadImage /\ tilesFull
    /\ Len(g.data) = 2 /\ g.tileWidth = 2 /\ g.tileLength = 2
    /\ call.x = 2 /\ call.y = 1
    /\ ret.kind = "ok" /\ ret.val = g.data[2][3]

----------------------------------------------------------------------------
(* Claims on georeferencing (checked under SpecGeo) *)

\* C5: every image a constructor returned has PixelScaleX > 0 and
\* PixelScaleY > 0
C5_PixelScalePositive ==
    ~g.nil => g.PixelScaleX > 0 /\ g.PixelScaleY > 0

\* the image carries a ModelTiepoint of 6 DOUBLEs
HasTiepoint ==
    /\ ~g.nil
    /\ ModelTiepoint \in DOMAIN g.tags
    /\ ToInt(g.tags[ModelTiepoint].length) = 6
    /\ g.tags[ModelTiepoint].fType = DOUBLE
    /\ Len(g.tags[ModelTiepoint].doubleData) = 6

\* the tiepoint [I, J, K, X, Y, Z]
TP == g.tags[ModelTiepoint].doubleData

AtOrigin == TP[1] = 0 /\ TP[2] = 0

\* the pixel scales are what the data model requires of an image
PositiveScales == g.PixelScaleX > 0 /\ g.PixelScaleY > 0

\* C6: with a tiepoint [0, 0, K, X, Y, Z], Bounds returns
\* upperLeft = (X, Y), lowerLeft = (X, Y - imageLength*pixelScaleY),
\* lowerRight = (X + imageWidth*pixelScaleX, Y - imageLength*pixelScaleY),
\* upperRight = (X + imageWidth*pixelScaleX, Y)
C6_BoundsOrigin ==
    (call.name = "Bounds" /\ HasTiepoint /\ AtOrigin)
        => /\ ret.kind = "ok"
           /\ ret.corners.UpperLeft = Point(TP[4], TP[5])
           /\ ret.corners.LowerLeft =
                  Point(TP[4], TP[5] - g.imageLength * g.PixelScaleY)
           /\ ret.corners.LowerRight =
                  Point(TP[4] + g.imageWidth * g.PixelScaleX,
                        TP[5] - g.imageLength * g.PixelScaleY)
           /\ ret.corners.UpperRight =
                  Point(TP[4] + g.imageWidth * g.PixelScaleX, TP[5])

\* Bounds answered for an origin tiepoint with a rectangle of nonzero area
C6_Witness ==
    /\ call.name = "Bounds" /\ HasTiepoint /\ AtOrigin
    /\ g.PixelScaleX > 0 /\ g.PixelScaleY > 0
    /\ ret.kind = "ok"
    /\ ret.corners.LowerRight = Point(TP[4] + 3 * g.PixelScaleX,
                                  TP[5] - 2 * g.PixelScaleY)

\* C7: with a tiepoint [I, J, K, X, Y, Z], I # 0 or J # 0, Bounds returns
\* upperLeft = (X - I*pixelScaleX, Y + J*pixelScaleY),
\* lowerRight = (X + I*pixelScaleX, Y - J*pixelScaleY),
\* lowerLeft = (upperLeft.lon, lowerRight.lat),
\* upperRight = (lowerRight.lon, upperLeft.lat)
\* (stated for images with positive pixel scales)
C7_BoundsGeneral ==
    (call.name = "Bounds" /\ HasTiepoint /\ ~AtOrigin /\ PositiveScales)
        => /\ ret.kind = "ok"
           /\ ret.corners.UpperLeft =
                  Point(TP[4] - TP[1] * g.PixelScaleX,
                        TP[5] + TP[2] * g.PixelScaleY)
           /\ ret.corners.LowerRight =
                  Point(TP[4] + TP[1] * g.PixelScaleX,
                        TP[5] - TP[2] * g.PixelScaleY)
           /\ ret.corners.LowerLeft =
                  Point(ret.corners.UpperLeft.Lon, ret.corners.LowerRight.Lat)
           /\ ret.corners.UpperRight =
                  Point(ret.corners.LowerRight.Lon, ret.corners.UpperLeft.Lat)

\* the error Bounds owes an image without a ModelTiepoint of 6 DOUBLEs:
\* "" when it owes none
tiepointFault(tags) ==
    IF ModelTiepoint \notin DOMAIN tags
      THEN "unable to retrieve model tiepoint"
    ELSE IF ToInt(tags[ModelTiepoint].length) # 6 THEN "invalid length"
    ELSE IF tags[ModelTiepoint].fType # DOUBLE
      THEN "unrecognized value for tiepoint"
    ELSE ""

\* C8: Bounds returns an error and no corners when the tag table has no
\* ModelTiepoint, when its count is not 6, or when it is not DOUBLE; AtCoord
\* on such an image returns that error
C8_BoundsErrors ==
    (~g.nil /\ call.name \in {"Bounds", "AtCoord"}
       /\ tiepointFault(g.tags) # "")
        => /\ ret.kind = "err"
           /\ ret.msg = tiepointFault(g.tags)
           /\ "corners" \notin DOMAIN ret

\* each of the three faults has been answered, to Bounds and to AtCoord
C8_Witness ==
    /\ ~g.nil /\ call.name = "AtCoord"
    /\ tiepointFault(g.tags) = "invalid length"
    /\ ret = Err("invalid length")

\* the last call was AtCoord on an image with a ModelTiepoint of 6 DOUBLEs
AtCoordCalled(interpolate) ==
    call.name = "AtCoord" /\ call.interp = interpolate /\ HasTiepoint

\* p lies within the corners Bounds returns, edges included
InsideBounds(p) ==
    LET cc == Bounds(g).corners
    IN  /\ cc.UpperLeft.Lon <= p.Lon /\ p.Lon <= cc.UpperRight.Lon
        /\ cc.LowerLeft.Lat <= p.Lat /\ p.Lat <= cc.UpperLeft.Lat

\* floor(num / den) over the integers, den # 0
floorDiv(num, den) ==
    IF den > 0 THEN num \div den ELSE (0 - num) \div (0 - den)

\* floor(|upperLeft.lon - lon| / pixelScaleX), for a nonzero pixel scale
colOf(lon) ==
    floorDiv(Abs(Bounds(g).corners.UpperLeft.Lon - lon), g.PixelScaleX)

\* floor(|lat - upperLeft.lat| / pixelScaleY), for a nonzero pixel scale
rowOf(lat) ==
    floorDiv(Abs(lat - Bounds(g).corners.UpperLeft.Lat), g.PixelScaleY)

\* what a caller of AtCoord sees of a result of loc
sameAnswer(r, l) ==
    /\ r.kind = l.kind
    /\ l.kind = "ok" => r.val = l.val
    /\ l.kind # "ok" => r.msg = l.msg

AtCoordNearestNonzero ==
    (AtCoordCalled(FALSE) /\ g.PixelScaleX # 0 /\ g.PixelScaleY # 0) =>
      LET p == Point(call.x, call.y)
      IN  /\ ~InsideBounds(p) => ret.kind = "err"
          /\ InsideBounds(p)
                => sameAnswer(ret, loc(g, colOf(p.Lon), rowOf(p.Lat)))

\* a value was returned for a point 3 east and 3 south of the upper left
\* corner at pixel scale 2: column 1 and row 1 by truncation
AtCoordNearestReached ==
    /\ AtCoordCalled(FALSE)
    /\ g.PixelScaleX = 2 /\ g.PixelScaleY = 2
    /\ InsideBounds(Point(call.x, call.y))
    /\ call.x - Bounds(g).corners.UpperLeft.Lon = 3
    /\ Bounds(g).corners.UpperLeft.Lat - call.y = 3
    /\ ret.kind = "ok"
    /\ ret.val = sampleAt(g.data, 0, 3)

\* p lies on the east or on the south edge of the bounds
OnFarEdge(p) ==
    LET cc == Bounds(g).corners
    IN  p.Lon = cc.UpperRight.Lon \/ p.Lat = cc.LowerLeft.Lat

\* C25: for an image with an origin tiepoint, AtCoord(lon, lat, false)
\* returns a value, not an error, for every point inside the bounds, the
\* points of the east edge and of the south edge included
\* (stated for images with positive pixel scales)
C25_InsideHasValue ==
    (AtCoordCalled(FALSE) /\ AtOrigin /\ PositiveScales) =>
      LET p == Point(call.x, call.y)
      IN  InsideBounds(p) => ret.kind = "ok"

\* off the two far edges it holds: AtCoord(lon, lat, false) returns a value
\* for every point inside the bounds that is neither on the east edge nor on
\* the south edge, from a column < imageWidth and a row < imageLength
InsideOffFarEdge ==
    (AtCoordCalled(FALSE) /\ AtOrigin) =>
      LET p == Point(call.x, call.y)
      IN  (InsideBounds(p) /\ ~OnFarEdge(p))
            => /\ ret.kind = "ok"
               /\ g.PixelScaleX > 0 /\ g.PixelScaleY > 0
               /\ colOf(p.Lon) < g.imageWidth
               /\ rowOf(p.Lat) < g.imageLength
               /\ sameAnswer(ret, loc(g, colOf(p.Lon), rowOf(p.Lat)))

\* a value was returned for a point 5 east of the upper left corner at
\* pixel scale 2 on an image 3 wide: the last column, short of the east edge
InsideOffFarEdgeReached ==
    /\ AtCoordCalled(FALSE) /\ AtOrigin
    /\ g.PixelScaleX = 2 /\ g.imageWidth = 3
    /\ InsideBounds(Point(call.x, call.y))
    /\ ~OnFarEdge(Point(call.x, call.y))
    /\ call.x - Bounds(g).corners.UpperLeft.Lon = 5
    /\ colOf(call.x) = 2
    /\ ret.kind = "ok"

\* on an image with positive pixel scales a point of the east or of the
\* south edge gives the column imageWidth or the row imageLength, which loc
\* rejects
FarEdgeRejected ==
    (AtCoordCalled(FALSE) /\ AtOrigin /\ PositiveScales) =>
      LET p == Point(call.x, call.y)
      IN  (InsideBounds(p) /\ OnFarEdge(p))
            => /\ ret.kind = "err"
               /\ \/ colOf(p.Lon) = g.imageWidth
                  \/ rowOf(p.Lat) = g.imageLength

\* the four probes of the interpolating mode around p
probesOf(p) ==
    << Point(p.Lon - g.PixelScaleX, p.Lat), Point(p.Lon + g.PixelScaleX, p.Lat),
       Point(p.Lon, p.Lat - g.PixelScaleY), Point(p.Lon, p.Lat + g.PixelScaleY) >>

\* C10: AtCoord(lon, lat, true) returns the unweighted mean of the four
\* non-interpolated values at the probes when all four probes lie inside the
\* bounds, and an error when some probe lies outside
\* (stated for images with positive pixel scales)
C10_InterpMean ==
    (AtCoordCalled(TRUE) /\ PositiveScales) =>
      LET probes == probesOf(Point(call.x, call.y))
          \* (at positive pixel scales every target converts alike)
          vals   == [i \in 1..4 |->
                       AtCoord(g, probes[i].Lon, probes[i].Lat, FALSE, "amd64")]
      IN  /\ (\A i \in 1..4 : InsideBounds(probes[i]))
                => /\ ret.kind = "ok"
                   /\ \A i \in 1..4 : vals[i].kind = "ok"
                   /\ ret.val = meanOf(vals[1].val + vals[2].val
                                         + vals[3].val + vals[4].val)
          /\ (\E i \in 1..4 : ~InsideBounds(probes[i]))
                => ret.kind = "err"

\* the index of the first point of the last AtPoints call that AtCoord
\* fails on, 0 when it fails on none
firstFailure(rs) ==
    IF \A i \in DOMAIN rs : rs[i].kind = "ok" THEN 0
    ELSE CHOOSE i \in DOMAIN rs :
           /\ rs[i].kind # "ok"
           /\ \A j \in 1..(i - 1) : rs[j].kind = "ok"

\* C11: AtPoints(points, interpolate) applies AtCoord to the points in
\* input order: when every point succeeds the result has the length of
\* points and its i-th element is AtCoord(points[i]); when some point fails
\* it is the error of the first failing point, with no values
C11_AtPointsInOrder ==
    (~g.nil /\ call.name = "AtPoints") =>
      \E arch \in Archs :
        LET rs == [i \in 1..Len(call.points) |->
                     AtCoord(g, call.points[i].Lon, call.points[i].Lat,
                             call.interp, arch)]
            k  == firstFailure(rs)
        IN  IF k = 0
            THEN /\ ret.kind = "ok"
                 /\ ret.vals = [i \in 1..Len(call.points) |-> rs[i].val]
            ELSE /\ ret.kind = "err"
                 /\ ret.msg = rs[k].msg

----------------------------------------------------------------------------
(* Claims on the header and the directories (checked under SpecWalk) *)

\* C12: readHeader selects little-endian for the marker 0x4949 (the bytes
\* 73, 73) and big-endian for 0x4D4D (77, 77) and fails for any other
\* marker; it fails unless the next two bytes, in the selected order, are
\* 42; on success the four bytes after them, in the selected order, are the
\* offset of the first directory
C12_ReadHeader ==
    call.name = "readTags" =>
      LET r      == made.file
          hd     == call.hd
          le     == Len(r) >= 2 /\ r[1] = 73 /\ r[2] = 73
          be     == Len(r) >= 2 /\ r[1] = 77 /\ r[2] = 77
          ident  == IF le THEN r[4] * 256 + r[3] ELSE r[3] * 256 + r[4]
          offset == IF le THEN <<r[8] * 256 + r[7], r[6] * 256 + r[5]>>
                    ELSE <<r[5] * 256 + r[6], r[7] * 256 + r[8]>>
      IN  /\ ~(le \/ be) => hd.kind = "err"
          /\ (Len(r) < 4 \/ ((le \/ be) /\ ident # 42)) => hd.kind = "err"
          /\ hd.kind = "ok"
               => /\ hd.head.byteOrder = IF le THEN "LittleEndian" ELSE "BigEndian"
                  /\ hd.head.iFDByteOffset = offset
          /\ ((le \/ be) /\ Len(r) >= 8 /\ ident = 42) => hd.kind = "ok"

\* a little-endian header was accepted whose offset bytes 1, 2, 3, 4 read
\* as 0x04030201
C12_Witness ==
    /\ call.name = "readTags"
    /\ made.file = <<73, 73, 42, 0, 1, 2, 3, 4>>
    /\ call.hd.kind = "ok"
    /\ call.hd.head.byteOrder = "LittleEndian"
    /\ call.hd.head.iFDByteOffset = <<1027, 513>>

\* C14: on every finite stream the directory walk of readTags terminates
\* with a tag table or an error, also when a directory's next-directory
\* offset points at itself or at an earlier directory
C14_WalkEnds ==
    <>(walkAt("done") /\ ret.kind \in {"ok", "err"})

\* every walk comes to an end, whatever the end is
WalkTerminates == <>walkAt("done")

\* a walk ended on a file whose second directory points back at the first
WalkEndedOnCycle ==
    /\ walkAt("done")
    /\ ret.kind = "ok"
    /\ Len(made.dirs) = 3
    /\ made.dirs[3].declared = u32(firstIFD)

\* C15: readTags reads every directory of the chain at its declared
\* offset: the entry count (and so the entries) of the first directory at
\* the offset of the header, those of each later directory at the offset
\* stored in the next-directory field of the one before
C15_DirsAtDeclaredOffset ==
    call.name = "readTags" =>
      \A k \in 1..Len(made.dirs) :
        made.dirs[k].readAt = ToInt(made.dirs[k].declared)

\* the width in bytes of the type codes 1..12
widthOf(f) == <<1, 1, 2, 4, 8, 1, 1, 2, 4, 8, 4, 8>>[f]

\* count * width(type) of an entry as an exact integer, so far as it
\* matters: above four bytes it is given as 5
exactBytes(e) ==
    IF e.Count[1] > 0 THEN fourByte + 1
    ELSE IF e.Count[2] * widthOf(e.FType) > fourByte THEN fourByte + 1
    ELSE e.Count[2] * widthOf(e.FType)

\* value() has just been called on the entry of the frame
EntryValued == call.name = "readTags" /\ call.hd.kind = "ok" /\ call.valued

\* C16: for an entry with count * width(type) <= 4 readTags decodes the
\* value from the entry's own slot, the four bytes that end where the
\* 12-byte record ends, whatever number the slot holds; for an entry with
\* count * width(type) > 4 it decodes from the position the slot holds
C16_InlineOrOffset ==
    EntryValued =>
      LET e     == call.entry
          where == IF exactBytes(e) <= fourByte THEN u32(call.entryAt + 8)
                   ELSE e.ValueOffset
          there == value(made.file, [e EXCEPT !.ValueOffset = where],
                         call.hd.head.byteOrder)
      IN  /\ call.seeked = where
          /\ IF there.kind = "ok" THEN call.tags[e.Tag] = there.tag
             ELSE ret = there

\* the same for the entries whose count is below 2^16, where it holds
InlineOrOffsetSmallCounts ==
    (EntryValued /\ call.entry.Count[1] = 0) =>
      LET e     == call.entry
          where == IF exactBytes(e) <= fourByte THEN u32(call.entryAt + 8)
                   ELSE e.ValueOffset
          there == value(made.file, [e EXCEPT !.ValueOffset = where],
                         call.hd.head.byteOrder)
      IN  /\ call.seeked = where
          /\ IF there.kind = "ok" THEN call.tags[e.Tag] = there.tag
             ELSE ret = there

\* two SHORTs were decoded from the slot of an entry, the slot holding the
\* number dataAt; five were decoded from the data at dataAt
InlineAndOffsetReached ==
    /\ EntryValued
    /\ call.entry.FType = SHORT
    /\ call.entry.ValueOffset = u32(dataAt)
    /\ call.hd.head.byteOrder = "LittleEndian"
    /\ \/ /\ call.entry.Count = u32(2)
          /\ call.tags[call.entry.Tag].shortData = <<dataAt, 0>>
       \/ /\ call.entry.Count = u32(5)
          /\ call.tags[call.entry.Tag].shortData = <<513, 1027, 1541, 2055, 2569>>

\* readTags took the entry of the frame for an inline one: value() sought
\* the entry's own slot
TakenInline == call.seeked = u32(call.entryAt + 8)

\* C24: the decision of readTags between an inline value and an offset
\* agrees with the exact product count * width(type) for every 32-bit
\* count: an entry is taken for inline exactly when that product is at most
\* 4, never because the 32-bit product wrapped
C24_DecisionExact ==
    EntryValued => (TakenInline <=> exactBytes(call.entry) <= fourByte)

\* the same for the counts below 2^16, where it holds
DecisionExactSmallCounts ==
    (EntryValued /\ call.entry.Count[1] = 0)
      => (TakenInline <=> exactBytes(call.entry) <= fourByte)

\* readTags has read an entry, the one of the frame
EntryRead == call.name = "readTags" /\ call.hd.kind = "ok" /\ call.entryAt > 0

\* C17: fieldType.bytes() returns 1, 1, 2, 4, 8, 1, 1, 2, 4, 8, 4, 8 for the
\* type codes 1..12 and returns 0, without faulting, for code 0 and for
\* every 16-bit code above 12, 13 included; readTags returns an error for
\* every entry whose type code has width 0
C17_WidthOfTypes ==
    EntryRead =>
      LET f == call.entry.FType
      IN  /\ ~bytesPanics(f)
          /\ f \in 1..12 => bytes(f) = widthOf(f)
          /\ f \notin 1..12 => /\ bytes(f) = 0
                               /\ walkAt("done")
                               /\ ret.kind = "err"

\* the same for every type code but 13, where it holds
WidthOfTypesBut13 ==
    (EntryRead /\ call.entry.FType # DOUBLE + 1) =>
      LET f == call.entry.FType
      IN  /\ ~bytesPanics(f)
          /\ f \in 1..12 => bytes(f) = widthOf(f)
          /\ f \notin 1..12 => /\ bytes(f) = 0
                               /\ walkAt("done")
                               /\ ret.kind = "err"

\* the entries of the chain of directories that starts at `offset`, each
\* with the position `at` of its record, following every next-directory
\* offset; ok says that the chain ends (offset 0) within MaxChain
\* directories, all of them inside the stream
RECURSIVE chainEntries(_, _, _, _)
chainEntries(r, byteOrder, offset, fuel) ==
    IF offset = 0 THEN [ok |-> TRUE, entries |-> << >>]
    ELSE IF fuel = 0 \/ ~avail(r, offset, 2) THEN [ok |-> FALSE, entries |-> << >>]
    ELSE The({ IF ~avail(r, offset + 2, 12 * n + fourByte)
                 THEN [ok |-> FALSE, entries |-> << >>]
               ELSE The({ [ok |-> rest.ok,
                           entries |->
                             [k \in 1..n |->
                                LET at == offset + 2 + 12 * (k - 1)
                                IN  [at |-> at,
                                     e |-> [Tag |-> readUint16(r, at, byteOrder),
                                            FType |-> readUint16(r, at + 2, byteOrder),
                                            Count |-> readUint32(r, at + 4, byteOrder),
                                            ValueOffset |-> readUint32(r, at + 8, byteOrder)]]]
                             \o rest.entries] :
                          rest \in { chainEntries(r, byteOrder,
                                       ToInt(readUint32(r, offset + 2 + 12 * n, byteOrder)),
                                       fuel - 1) } }) :
               n \in { readUint16(r, offset, byteOrder) } })

\* the table that holds, for every tag id of `entries`, the value of the
\* last entry carrying it
lastWins(r, byteOrder, entries) ==
    [t \in { entries[k].e.Tag : k \in 1..Len(entries) } |->
       LET last == CHOOSE k \in 1..Len(entries) :
                     /\ entries[k].e.Tag = t
                     /\ \A j \in (k + 1)..Len(entries) : entries[j].e.Tag # t
       IN  value(r, entryRead(entries[last].e, entries[last].at + 12),
                 byteOrder).tag]

\* readTags returned a table for a file whose chain of directories ends
TableOfChain ==
    /\ walkAt("done")
    /\ ret.kind = "ok"
    /\ chainEntries(made.file, call.hd.head.byteOrder,
                    ToInt(call.hd.head.iFDByteOffset), MaxChain).ok

\* C18: the tag table readTags returns holds, for every tag id, the value
\* decoded from the last entry carrying that id in the order of traversal,
\* within one directory and across the directories of the chain; each id
\* appears once
C18_LastWriteWins ==
    TableOfChain =>
      ret.tags = lastWins(made.file, call.hd.head.byteOrder,
                   chainEntries(made.file, call.hd.head.byteOrder,
                                ToInt(call.hd.head.iFDByteOffset),
                                MaxChain).entries)

\* the same for the chains whose directories readTags read where they lie
LastWriteWinsInPlace ==
    (TableOfChain /\ C15_DirsAtDeclaredOffset) =>
      ret.tags = lastWins(made.file, call.hd.head.byteOrder,
                   chainEntries(made.file, call.hd.head.byteOrder,
                                ToInt(call.hd.head.iFDByteOffset),
                                MaxChain).entries)

\* a table was returned for two directories of two entries each, all four
\* of one tag: it holds the value of the fourth
LastWriteWinsReached ==
    /\ TableOfChain
    /\ C15_DirsAtDeclaredOffset
    /\ Len(made.entries) = 4
    /\ \A k \in 1..4 : made.entries[k].read.Tag = ImageWidth
    /\ ret.tags[ImageWidth].shortData = <<34>>

\* the elements a tagData holds, whatever slice they are in
elementsOf(d) ==
    Len(d.byteData) + Len(d.asciiData) + Len(d.shortData) + Len(d.longData)
      + Len(d.floatData) + Len(d.doubleData)

\* C19: every value stored in the tag table holds exactly as many decoded
\* elements as its recorded length, the declared count of its entry, for
\* every type code of nonzero width (RATIONAL, SBYTE, UNDEFINED, SSHORT,
\* SLONG and SRATIONAL included), and tagData.value() yields the variant
\* that fType records, never another
C19_CountElements ==
    (call.name = "readTags" /\ call.hd.kind = "ok") =>
      \A t \in DOMAIN call.tags :
        /\ elementsOf(call.tags[t]) = ToInt(call.tags[t].length)
        /\ tagValue(call.tags[t]).ftype = call.tags[t].fType
        /\ Len(tagValue(call.tags[t]).elem) = ToInt(call.tags[t].length)

\* the same for the values of the six types that value() decodes
CountElementsDecoded ==
    (call.name = "readTags" /\ call.hd.kind = "ok") =>
      \A t \in DOMAIN call.tags :
        call.tags[t].fType \in {BYTE, ASCII, SHORT, LONG, FLOAT, DOUBLE}
          => /\ elementsOf(call.tags[t]) = ToInt(call.tags[t].length)
             /\ tagValue(call.tags[t]).ftype = call.tags[t].fType
             /\ Len(tagValue(call.tags[t]).elem) = ToInt(call.tags[t].length)

\* a DOUBLE value of MaxCount elements was stored
CountElementsReached ==
    /\ call.name = "readTags" /\ call.hd.kind = "ok"
    /\ ImageWidth \in DOMAIN call.tags
    /\ call.tags[ImageWidth].fType = DOUBLE
    /\ Len(call.tags[ImageWidth].doubleData) = MaxCount

----------------------------------------------------------------------------
(* Claims on readData (checked under SpecData) *)

\* the fields readData takes a dimension or the bits per sample from
shortFields == {BitsPerSample, ImageWidth, ImageLength, TileWidth, TileLength}

\* the fields it takes the tiles from
longFields == {TileOffsets, TileByteCounts}

\* C20: readData returns an error, and does not fault, whenever one of
\* BitsPerSample, ImageWidth, ImageLength, TileWidth, TileLength,
\* TileOffsets, TileByteCounts is absent from the tag table, whenever a
\* dimension or the bits per sample is not decoded as unsigned-16, and
\* whenever TileOffsets or TileByteCounts is not decoded as unsigned-32
C20_ReadDataRejects ==
    made.by = "readData" =>
      LET tags == made.in.tags
      IN  ( \/ \E f \in shortFields \cup longFields : f \notin DOMAIN tags
            \/ \E f \in shortFields \cap DOMAIN tags : tags[f].fType # SHORT
            \/ \E f \in longFields \cap DOMAIN tags : tags[f].fType # LONG )
          => ret.kind = "err"

\* the same where the field is absent or of a type that is neither SHORT
\* nor LONG, where it holds
ReadDataRejectsOthers ==
    made.by = "readData" =>
      LET tags == made.in.tags
      IN  ( \/ \E f \in shortFields \cup longFields : f \notin DOMAIN tags
            \/ \E f \in (shortFields \cup longFields) \cap DOMAIN tags :
                 tags[f].fType \notin {SHORT, LONG} )
          => ret.kind = "err"

\* readData returned the two tiles of the unchanged table
ReadDataReached ==
    /\ made.by = "readData"
    /\ ret.kind = "ok"
    /\ Len(ret.data) = 2

\* readData was called on a table that holds every field it needs, the
\* dimensions and the bits per sample as SHORTs of at least one element, the
\* tile dimensions positive, the tiles as LONGs
ReadDataTyped ==
    /\ made.by = "readData"
    /\ \A f \in shortFields :
         /\ f \in DOMAIN made.in.tags
         /\ made.in.tags[f].fType = SHORT
         /\ made.in.tags[f].shortData # << >>
    /\ \A f \in longFields :
         /\ f \in DOMAIN made.in.tags
         /\ made.in.tags[f].fType = LONG
    /\ made.in.tags[TileWidth].shortData[1] > 0
    /\ made.in.tags[TileLength].shortData[1] > 0

\* tilesAcross * tilesDown of the table, as exact integers
tilesOfTable(tags) ==
    CeilDiv(tags[ImageWidth].shortData[1], tags[TileWidth].shortData[1])
      * CeilDiv(tags[ImageLength].shortData[1], tags[TileLength].shortData[1])

\* C21: readData returns an error whenever tilesAcross * tilesDown differs
\* from the length of TileOffsets or from the length of TileByteCounts; a
\* TileByteCounts shorter than TileOffsets yields an error, not a fault
C21_TileCountsChecked ==
    ReadDataTyped =>
      LET tags == made.in.tags
      IN  ( \/ tilesOfTable(tags) # Len(tags[TileOffsets].longData)
            \/ tilesOfTable(tags) # Len(tags[TileByteCounts].longData) )
          => ret.kind = "err"

\* the 16-bit tile arithmetic of readData is exact on the table
fitsUint16(tags) ==
    /\ tags[ImageWidth].shortData[1] + tags[TileWidth].shortData[1] - 1 < W16
    /\ tags[ImageLength].shortData[1] + tags[TileLength].shortData[1] - 1 < W16
    /\ tilesOfTable(tags) < W16

\* the same for TileOffsets alone, on the tables whose 16-bit arithmetic
\* is exact, where it holds
TileOffsetsChecked ==
    (ReadDataTyped /\ fitsUint16(made.in.tags)) =>
      LET tags == made.in.tags
      IN  tilesOfTable(tags) # Len(tags[TileOffsets].longData)
            => ret.kind = "err"

\* a table with one tile offset for two tiles was rejected
TileOffsetsCheckedReached ==
    /\ ReadDataTyped
    /\ tilesOfTable(made.in.tags) = 2
    /\ Len(made.in.tags[TileOffsets].longData) = 1
    /\ Len(made.in.tags[TileByteCounts].longData) = 2
    /\ ret.kind = "err"

\* the 32-bit float at position pos of the stream r, in byteOrder
floatAt(r, pos, byteOrder) ==
    float32Of(IF byteOrder = "LittleEndian"
                THEN <<r[pos + 4], r[pos + 3], r[pos + 2], r[pos + 1]>>
              ELSE <<r[pos + 1], r[pos + 2], r[pos + 3], r[pos + 4]>>)

\* C22: on success readData returns one buffer per element of TileOffsets,
\* in the same order; buffer i holds exactly
\* byteCount[i] / (bitsPerSample / 8) samples, read one after the other from
\* file position offset[i] in the byte order of the header
C22_TilesAsDeclared ==
    (made.by = "readData" /\ ret.kind = "ok") =>
      LET tags       == made.in.tags
          offsets    == tags[TileOffsets].longData
          byteCounts == tags[TileByteCounts].longData
          width      == tags[BitsPerSample].shortData[1] \div 8
      IN  /\ Len(ret.data) = Len(offsets)
          /\ \A i \in 1..Len(offsets) :
               /\ Len(ret.data[i]) = ToInt(byteCounts[i]) \div width
               /\ \A k \in 1..Len(ret.data[i]) :
                    ret.data[i][k] =
                      floatAt(made.in.r, ToInt(offsets[i]) + 4 * (k - 1),
                              made.in.header.byteOrder)

\* two tiles of MaxTileLen - 1 samples at 16 bits per sample were read from
\* a big-endian file
C22_Witness ==
    /\ made.by = "readData"
    /\ ret.kind = "ok"
    /\ made.in.header.byteOrder = "BigEndian"
    /\ made.in.tags[BitsPerSample].shortData = <<16>>
    /\ Len(ret.data) = 2
    /\ ret.data[1] = [k \in 1..(MaxTileLen - 1) |-> sampleOf(0, k - 1)]
    /\ ret.data[2] = [k \in 1..(MaxTileLen - 1) |-> sampleOf(1, k - 1)]

----------------------------------------------------------------------------
(* Claims on concurrent queries (checked under SpecQueries) *)

\* C13: no query on a constructed image (loc, Bounds, AtCoord, AtPoints,
\* interp) modifies its dimensions, pixel scales, tag table or tile buffers:
\* while callers query it the image stays as it was constructed, and every
\* query, however it interleaved with the others, returns what it returns
\* when run alone on that image
C13_QueriesFrame ==
    call.name = "queries" =>
      /\ g = made.image
      /\ \A c \in Callers :
           call.frames[c].pc = "done"
             => ret.of[c] = runQuery(made.image, call.frames[c].q)

\* two callers were inside AtCoord and Bounds at the same time, and both
\* got an answer
C13_Witness ==
    /\ call.name = "queries"
    /\ \E c, d \in Callers :
         /\ c # d
         /\ call.frames[c].pc = "done" /\ call.frames[d].pc = "done"
         /\ call.frames[c].overlapped \/ call.frames[d].overlapped
         /\ call.frames[c].q.name = "AtCoord" /\ ret.of[c].kind = "ok"
         /\ call.frames[d].q.name = "Bounds" /\ ret.of[d].kind = "ok"

====
